---- MODULE Spec2Model ----
(***************************************************************************)
(* Model of the DTS -> UFF Type 58 converter.                              *)
(*                                                                         *)
(* The state machine follows conversion::convert_with_progress             *)
(* (src/src/conversion.rs) together with the parts of dts::DtsReader       *)
(* (src/src/dts.rs) it calls: DtsReader::new, channel_count, read_track.   *)
(*                                                                         *)
(* Channel indices, plan orders and slice bounds are 0-based, as in the    *)
(* Rust code; TLA+ sequences are 1-based, so element i of a Vec is         *)
(* seq[i + 1].                                                             *)
(*                                                                         *)
(* Three parts share the module, each with its own variables and its own   *)
(* specification(s): the library call (Spec), the command-line program's   *)
(* pipelined writer in main.rs (SpecCli), and the UFF codec of uff.rs      *)
(* called on its own (SpecFile, SpecSci, SpecCodec).  A step of one part   *)
(* leaves the variables of the others unchanged.                           *)
(*                                                                         *)
(* The call's inputs (the track-name file, the directory, the filter and   *)
(* the slice) are fixed for one call; each is drawn from its set by the    *)
(* step that first reads it and is kept unchanged from then on.            *)
(***************************************************************************)
EXTENDS Integers, Sequences, FiniteSets, TLC

(***************************************************************************)
(* Bounds of the model.                                                    *)
(***************************************************************************)
MaxChannels == 2      \* .chn files / XML channel entries in the directory
MaxTracks   == 2      \* entries of the track-name list
MaxFilter   == 2      \* entries of the track filter
MaxNpts     == 2      \* header sample count of one channel
MaxStart    == 1      \* slice start
MaxEnd      == 2      \* slice end

Names == {"a", "b"}

VARIABLES
    track_list_filter,  \* the argument Option<&[String]>
    slice,              \* the argument Option<SampleSlice>
    dir,                \* the input directory: .dts file and .chn files
    prior_out,          \* the output path's state before the call
    out,                \* the output path's state now
    pc,                 \* position in convert_with_progress
    track_names,        \* Vec<String> parsed from the track-name file
    reader,             \* the DtsReader (valid when reader.built)
    warnings,           \* Vec<String> of warnings
    channel_plan,       \* Vec<(order, channel_index)>
    tasks,              \* state of each parallel extraction task
    processed_channels, \* Vec<(order, track_name, ChannelData)>
    processed_names,    \* Vec<String> of the written track names
    events,             \* the progress callback's invocations, in order
    result,             \* "none" while running, then "ok" or "err"
    error,              \* which step failed
    report,             \* the ConversionReport (meaningful when result = "ok")
    \* The command-line program (main.rs): a writer thread fed through a
    \* bounded channel by one rayon job per channel.
    cli_pc,             \* position of main
    cli_channels,       \* num_channels = dts_reader.channel_count()
    read_fails,         \* the channels whose read_track returned Err so far
    cli_prior,          \* args.output before the run
    cli_out,            \* args.output now
    job,                \* state of the job spawned for each channel
    queue,              \* the messages buffered in the sync_channel
    rx_open,            \* the receiver has not been dropped
    writer_pc,          \* position of the writer thread
    append_flag,        \* the writer's append_flag
    next_index,         \* the writer's next_index
    pending,            \* the keys of the writer's BTreeMap
    writer_result,      \* the writer closure's return value
    cli_result,         \* main's return value
    \* The UFF codec (uff.rs), called on its own.
    uff_path,           \* the file write_uff58_file_with_format is called on
    uff_calls,          \* the calls made on it so far, in order
    sci_args,           \* the arguments of a write_scientific call
    sci_field,          \* what the call wrote into the buffer
    codec_args,         \* the arguments of a write_uff58_with_format call
    codec_out,          \* what the call wrote into the writer
    \* The DTS reader (dts.rs), called on its own.
    xml_args,           \* the metadata file read_dts_xml is called on
    xml_out,            \* the Result<String> it returned
    calib_args,         \* the channel read_track calibrates
    calib_out,          \* the values it computed for the channel
    dts_dir,            \* the directory DtsReader::new is called on
    dts_reader,         \* the DtsReader it returned (built), or none
    dts_metadata,       \* what track_metadata() returned
    sample_reads,       \* the reads of channel sample data made so far
    \* The convert tool of the MCP server (tools.rs).
    mcp_args,           \* the arguments of the ConvertDtsToUff call
    mcp_pc,             \* position of call_tool
    mcp_call,           \* the arguments passed on to convert_with_options
    mcp_fs,             \* what the call did to the input directory and output
    mcp_result          \* call_tool's return value

convertVars == <<track_list_filter, slice, dir, prior_out, out, pc, track_names,
                 reader, warnings, channel_plan, tasks, processed_channels,
                 processed_names, events, result, error, report>>

cliVars == <<cli_pc, cli_channels, read_fails, cli_prior, cli_out, job, queue,
             rx_open, writer_pc, append_flag, next_index, pending,
             writer_result, cli_result>>

uffVars == <<uff_path, uff_calls, sci_args, sci_field, codec_args, codec_out>>

xmlVars == <<xml_args, xml_out>>

calibVars == <<calib_args, calib_out>>

readerVars == <<dts_dir, dts_reader, dts_metadata, sample_reads>>

dtsVars == <<xmlVars, calibVars, readerVars>>

mcpVars == <<mcp_args, mcp_pc, mcp_call, mcp_fs, mcp_result>>

vars == <<convertVars, cliVars, uffVars, dtsVars, mcpVars>>

\* What a step of convert_with_progress leaves alone, a step of main, a
\* call of the codec, a call of the DTS reader, and a step of the tool.
nonConvertVars == <<cliVars, uffVars, dtsVars, mcpVars>>

nonCliVars == <<convertVars, uffVars, dtsVars, mcpVars>>

nonUffVars == <<convertVars, cliVars, dtsVars, mcpVars>>

nonDtsVars == <<convertVars, cliVars, uffVars, mcpVars>>

nonMcpVars == <<convertVars, cliVars, uffVars, dtsVars>>

(***************************************************************************)
(* Helpers on sequences.                                                   *)
(***************************************************************************)
SeqsUpTo(S, n) == UNION {[1..k -> S] : k \in 0..n}

Range(s) == {s[i] : i \in 1..Len(s)}

Min(S) == CHOOSE x \in S : \A y \in S : x <= y

(***************************************************************************)
(* Inputs.                                                                 *)
(***************************************************************************)
\* Option<&[String]>
FilterSet ==
    {[some |-> FALSE, names |-> <<>>]}
        \cup {[some |-> TRUE, names |-> f] : f \in SeqsUpTo(Names, MaxFilter)}

\* Option<SampleSlice>: none, or a slice that starts at the first sample or
\* at MaxStart and ends anywhere up to MaxEnd.
SliceSet ==
    {[some |-> FALSE, start |-> 0, end |-> 0]}
        \cup {[some |-> TRUE, start |-> s, end |-> e] :
                 s \in {0, MaxStart}, e \in 0..MaxEnd}

\* dts.rs 122: the magic key 0x2C36351F.
MagicKey == 741750047

\* dts.rs 134-140: the offset at which read_chn_header's last read ends in
\* a file with num_triggers triggers.
HeaderEnd(num_triggers) == num_triggers * 8 + 70 + 4 + 8 + 8

\* One .chn file: its first four bytes as a number, its trigger count, its
\* length in bytes, the header's npts and sample rate, and the number of
\* 16-bit samples present from channel_start on (the samples follow the
\* header).
ChnFile(magic, num_triggers, npts, avail) ==
    [magic |-> magic, num_triggers |-> num_triggers,
     len |-> HeaderEnd(num_triggers) + 2 * avail,
     npts |-> npts, avail |-> avail, sample_rate |-> 200000]

\* A complete file holds the shortest or the longest recording; one file is
\* cut short by a sample; one does not start with the magic key.
ChnFiles ==
    {ChnFile(MagicKey, 0, n, n) : n \in {1, MaxNpts}}
        \cup {ChnFile(MagicKey, 0, MaxNpts, MaxNpts - 1),
              ChnFile(0, 0, 1, 1)}

\* The input directory: is there a parseable .dts file, how many channel
\* entries it holds, and the .chn files in natural-sort order.
DirSet ==
    {[dts_ok |-> TRUE, n_meta |-> m, chn |-> c] :
         m \in 0..MaxChannels, c \in SeqsUpTo(ChnFiles, MaxChannels)}
        \cup {[dts_ok |-> FALSE, n_meta |-> 0, chn |-> <<>>]}

\* fs::read_to_string of the track-name file: an error, or the names it holds.
TrackFileSet ==
    {[ok |-> TRUE, names |-> t] : t \in SeqsUpTo(Names, MaxTracks)}
        \cup {[ok |-> FALSE, names |-> <<>>]}

NoFilter == [some |-> FALSE, names |-> <<>>]

NoSlice == [some |-> FALSE, start |-> 0, end |-> 0]

NoDir == [dts_ok |-> FALSE, n_meta |-> 0, chn |-> <<>>]

\* The output path before the call: a file with earlier content, so that
\* opening it with truncate(true) shows.
OutSet == {[exists |-> TRUE,
            blocks |-> <<[order |-> -1, channel |-> -1, name |-> "old",
                          series |-> <<>>]>>]}

NoReader == [built |-> FALSE, chn_files |-> <<>>, xml_metadata |-> <<>>,
             chn_headers |-> <<>>, min_npts |-> 0]

NoReport == [channel_count |-> 0, track_name_count |-> 0,
             processed_track_names |-> <<>>, warnings |-> <<>>]

\* An output path that does not exist, and one that holds earlier content
\* (block -1).
NoFile == [exists |-> FALSE, blocks |-> <<>>]

OldFile == [exists |-> TRUE, blocks |-> <<-1>>]

\* No call of write_scientific, or of the block writers, has been made.
NoSciArgs == [called |-> FALSE, value |-> [kind |-> "finite", neg |-> FALSE,
                                           lead |-> 0, exp |-> 0],
              width |-> 0, precision |-> 0]

NoSciField == [ok |-> TRUE, text |-> <<>>]

NoCodecArgs == [called |-> FALSE]

NoCodecOut == [status |-> "none", records |-> <<>>, n_ascii_lines |-> 0,
               n_bytes |-> 0]

\* No call of read_dts_xml has been made.
NoXmlArgs == [called |-> FALSE]

NoXmlOut == [ok |-> TRUE, text |-> <<>>]

\* No call of read_track's calibration has been made.
NoCalibArgs == [called |-> FALSE]

NoCalibOut == [called |-> FALSE]

\* DtsReader::new has not been called, nor track_metadata.
NoDtsDir == [called |-> FALSE]

NoMetadata == [called |-> FALSE, entries |-> <<>>]

\* The convert tool has not been called; nothing was passed on to the
\* conversion; neither the input directory nor the output was touched.
NoMcpArgs == [called |-> FALSE]

NoMcpCall == [started |-> FALSE]

UntouchedFs == [input_read |-> FALSE, output_touched |-> FALSE]

Init ==
    /\ track_list_filter = NoFilter
    /\ slice = NoSlice
    /\ dir = NoDir
    /\ prior_out \in OutSet
    /\ out = prior_out
    /\ pc = "ReadTrackNames"
    /\ track_names = <<>>
    /\ reader = NoReader
    /\ warnings = <<>>
    /\ channel_plan = <<>>
    /\ tasks = <<>>
    /\ processed_channels = <<>>
    /\ processed_names = <<>>
    /\ events = <<>>
    /\ result = "none"
    /\ error = "none"
    /\ report = NoReport
    /\ cli_pc = "start"
    /\ cli_channels = 0
    /\ read_fails = {}
    /\ cli_prior = NoFile
    /\ cli_out = NoFile
    /\ job = <<>>
    /\ queue = <<>>
    /\ rx_open = TRUE
    /\ writer_pc = "idle"
    /\ append_flag = FALSE
    /\ next_index = 0
    /\ pending = {}
    /\ writer_result = "none"
    /\ cli_result = "none"
    /\ uff_path = NoFile
    /\ uff_calls = <<>>
    /\ sci_args = NoSciArgs
    /\ sci_field = NoSciField
    /\ codec_args = NoCodecArgs
    /\ codec_out = NoCodecOut
    /\ xml_args = NoXmlArgs
    /\ xml_out = NoXmlOut
    /\ calib_args = NoCalibArgs
    /\ calib_out = NoCalibOut
    /\ dts_dir = NoDtsDir
    /\ dts_reader = NoReader
    /\ dts_metadata = NoMetadata
    /\ sample_reads = 0
    /\ mcp_args = NoMcpArgs
    /\ mcp_pc = "idle"
    /\ mcp_call = NoMcpCall
    /\ mcp_fs = UntouchedFs
    /\ mcp_result = "none"

(***************************************************************************)
(* 2. DtsReader::new, channel_count and read_track (dts.rs).               *)
(***************************************************************************)
\* u64::MAX, the initial value of min_npts (the largest integer of the
\* model stands for it; it is only ever compared with sample counts).
U64_MAX == 2147483647

\* Variant: more .chn files than channel entries are accepted.
CountsAgree_AtLeast(n_files, n_meta) == n_files >= n_meta

\* dts.rs 88: the .chn file count must equal the XML channel count.
CountsAgree(n_files, n_meta) == n_files = n_meta

\* A read of size bytes at offset at succeeds when the file holds them.
ReadFits(f, at, size) == at + size <= f.len

\* Variant: only the magic key is checked.
read_chn_header_MagicOnly(f) ==
    [ok |-> f.magic = MagicKey, npts |-> f.npts,
     sample_rate |-> f.sample_rate]

\* read_chn_header: fails when a read runs past the end of the file or the
\* magic key differs, else yields the header.
read_chn_header(f) ==
    LET n == f.num_triggers * 8
    IN  [ok |-> /\ ReadFits(f, 0, 4)
                /\ f.magic = MagicKey
                /\ ReadFits(f, 8, 8)
                /\ ReadFits(f, 16, 8)
                /\ ReadFits(f, 32, 8)
                /\ ReadFits(f, 40, 2)
                /\ ReadFits(f, 42, 8)
                /\ ReadFits(f, n + 42, 4)
                /\ ReadFits(f, n + 70, 4)
                /\ ReadFits(f, n + 74, 8)
                /\ ReadFits(f, n + 82, 8),
         npts |-> f.npts,
         sample_rate |-> f.sample_rate]

\* dts.rs 97-105: the running minimum of header.npts, from u64::MAX.
RECURSIVE MinNptsFrom(_, _, _)
MinNptsFrom(headers, i, acc) ==
    IF i > Len(headers) THEN acc
    ELSE MinNptsFrom(headers, i + 1,
                     IF headers[i].npts < acc THEN headers[i].npts ELSE acc)

\* Variant: the first channel's sample count instead of the minimum.
MinNpts_First(headers) ==
    IF headers = <<>> THEN U64_MAX ELSE headers[1].npts

MinNpts(headers) == MinNptsFrom(headers, 1, U64_MAX)

\* DtsReader::new: Err, or the reader with its three per-channel lists.
DtsReaderNew(d) ==
    LET hs == [i \in 1..Len(d.chn) |-> read_chn_header(d.chn[i])]
    IN  IF ~d.dts_ok THEN NoReader
        ELSE IF ~CountsAgree(Len(d.chn), d.n_meta) THEN NoReader
        ELSE IF \E i \in 1..Len(hs) : ~hs[i].ok THEN NoReader
        ELSE [built        |-> TRUE,
              chn_files    |-> [i \in 1..Len(d.chn) |-> i - 1],
              xml_metadata |-> [i \in 1..d.n_meta |-> i - 1],
              chn_headers  |-> hs,
              min_npts     |-> MinNpts(hs)]

channel_count(r) == Len(r.chn_files)

\* The calibrated value of sample k of channel ch, as an opaque token.
Sample(ch, k) == <<ch, k>>

\* dts.rs 166: the number of samples read_track reads.
NumSamplesToRead(r) == r.min_npts

\* read_track: out-of-bounds index -> Err; fewer than num_samples_to_read
\* samples in the file -> Err (read_i16_into hits end of file); else the
\* first num_samples_to_read samples, calibrated.
read_track(r, d, track_index) ==
    IF track_index >= channel_count(r)
      THEN [ok |-> FALSE, time_series |-> <<>>]
    ELSE IF d.chn[r.chn_files[track_index + 1] + 1].avail < NumSamplesToRead(r)
      THEN [ok |-> FALSE, time_series |-> <<>>]
    ELSE [ok |-> TRUE,
          time_series |-> [k \in 1..NumSamplesToRead(r) |->
                               Sample(track_index, k - 1)]]

(***************************************************************************)
(* 3. SampleSlice::as_range and the slicing of a series.                   *)
(***************************************************************************)
\* Variant: an end beyond the series is clamped to its length.
as_range_Clamped(self, len) ==
    IF self.start >= self.end THEN [ok |-> FALSE, start |-> 0, end |-> 0]
    ELSE IF self.end > len
      THEN [ok |-> TRUE, start |-> IF self.start > len THEN len ELSE self.start,
            end |-> len]
    ELSE [ok |-> TRUE, start |-> self.start, end |-> self.end]

as_range(self, len) ==
    IF self.start >= self.end THEN [ok |-> FALSE, start |-> 0, end |-> 0]
    ELSE IF self.end > len THEN [ok |-> FALSE, start |-> 0, end |-> 0]
    ELSE [ok |-> TRUE, start |-> self.start, end |-> self.end]

\* Variant: the first end - start elements, whatever the start.
SliceSeries_FromZero(series, range) == SubSeq(series, 1, range.end - range.start)

\* time_series[range].to_vec()
SliceSeries(series, range) == SubSeq(series, range.start + 1, range.end)

(***************************************************************************)
(* 4. The channel plan (conversion.rs 169-191).                            *)
(***************************************************************************)
NotFoundWarning(name) == [kind |-> "not_found", name |-> name, x |-> 0, y |-> 0]

CountMismatchWarning(n_names, n_channels) ==
    [kind |-> "count_mismatch", name |-> "", x |-> n_names, y |-> n_channels]

ProcessedMismatchWarning(n_channels, n_processed) ==
    [kind |-> "processed_mismatch", name |-> "", x |-> n_channels,
     y |-> n_processed]

\* .find(|(idx, name)| !used[*idx] && *name == requested_name): the indices
\* that qualify; find yields the smallest one.  (Variant first: entries
\* already used by an earlier request qualify again.)
Candidates_IgnoreUsed(tn, used, requested_name) ==
    {idx \in 0..(Len(tn) - 1) : tn[idx + 1] = requested_name}

Candidates(tn, used, requested_name) ==
    {idx \in 0..(Len(tn) - 1) : idx \notin used /\ tn[idx + 1] = requested_name}

\* (Variant first: the last qualifying entry is taken.)
FindUnused_Last(tn, used, requested_name) ==
    CHOOSE idx \in Candidates(tn, used, requested_name) :
        \A other \in Candidates(tn, used, requested_name) : idx >= other

FindUnused(tn, used, requested_name) == Min(Candidates(tn, used, requested_name))

\* The for loop over filter.iter().enumerate(), from position `order` on.
RECURSIVE FilterLoop(_, _, _, _, _, _)
FilterLoop(filter, tn, order, used, plan, warns) ==
    IF order >= Len(filter) THEN [plan |-> plan, warnings |-> warns]
    ELSE LET requested_name == filter[order + 1]
         IN  IF Candidates(tn, used, requested_name) # {}
               THEN LET channel_index == FindUnused(tn, used, requested_name)
                    IN  FilterLoop(filter, tn, order + 1,
                                   used \cup {channel_index},
                                   Append(plan, <<order, channel_index>>),
                                   warns)
               ELSE FilterLoop(filter, tn, order + 1, used, plan,
                               Append(warns, NotFoundWarning(requested_name)))

BuildChannelPlan(filter, tn, num_channels) ==
    IF filter.some
      THEN FilterLoop(filter.names, tn, 0, {}, <<>>, <<>>)
      ELSE [plan |-> [i \in 1..num_channels |-> <<i - 1, i - 1>>],
            warnings |-> <<>>]

(***************************************************************************)
(* 5. One extraction task and the ordering of the results.                 *)
(***************************************************************************)
Digit(n) == CASE n = 0 -> "0" [] n = 1 -> "1" [] n = 2 -> "2" [] n = 3 -> "3"
              [] n = 4 -> "4" [] n = 5 -> "5" [] n = 6 -> "6" [] n = 7 -> "7"
              [] n = 8 -> "8" [] n = 9 -> "9"

\* track_names.get(channel_index).cloned()
\*     .unwrap_or_else(|| format!("Channel_{}", channel_index + 1))
\* (Variant first: the fallback label counts channels from zero.)
TrackLabel_ZeroBased(tn, channel_index) ==
    IF channel_index < Len(tn) THEN tn[channel_index + 1]
    ELSE "Channel_" \o Digit(channel_index)

TrackLabel(tn, channel_index) ==
    IF channel_index < Len(tn) THEN tn[channel_index + 1]
    ELSE "Channel_" \o Digit(channel_index + 1)

\* The closure of the parallel map (conversion.rs 204-221).
ExtractChannel(r, d, tn, sl, order, channel_index) ==
    LET track_name == TrackLabel(tn, channel_index)
        rd == read_track(r, d, channel_index)
        range == as_range(sl, Len(rd.time_series))
        fail(kind) == [status |-> kind, order |-> order, channel |-> channel_index,
                       name |-> track_name, series |-> <<>>]
    IN  IF ~rd.ok THEN fail("read_track")
        ELSE IF sl.some /\ ~range.ok THEN fail("slice")
        ELSE [status |-> "ok", order |-> order, channel |-> channel_index,
              name |-> track_name,
              series |-> IF sl.some THEN SliceSeries(rd.time_series, range)
                         ELSE rd.time_series]

\* Insert x into a sequence sorted by order, after the entries with an equal
\* order (sort_by_key is stable).
RECURSIVE InsertByOrder(_, _)
InsertByOrder(s, x) ==
    IF s = <<>> THEN <<x>>
    ELSE IF x.order < Head(s).order THEN <<x>> \o s
    ELSE <<Head(s)>> \o InsertByOrder(Tail(s), x)

RECURSIVE InsertionSort(_)
InsertionSort(s) ==
    IF s = <<>> THEN <<>>
    ELSE InsertByOrder(InsertionSort(SubSeq(s, 1, Len(s) - 1)), s[Len(s)])

\* Variant: the results stay in the order the tasks finished in.
SortByOrder_Unsorted(s) == s

\* Variant: the results are ordered by channel index.
SortByOrder_ByChannel(s) ==
    CHOOSE t \in [1..Len(s) -> Range(s)] :
        /\ Range(t) = Range(s)
        /\ \A i, j \in 1..Len(s) : i < j => t[i].channel <= t[j].channel

\* processed_channels.sort_by_key(|(order, _, _)| *order)
SortByOrder(s) == InsertionSort(s)


\* `?` on an Err: the call returns the error; nothing else changes.
Fail(kind) ==
    /\ pc' = "done"
    /\ result' = "err"
    /\ error' = kind

(***************************************************************************)
(* 1. Read track names (conversion.rs 151-160).                            *)
(***************************************************************************)
ReadTrackNames ==
    /\ pc = "ReadTrackNames"
    /\ \E file \in TrackFileSet :
          IF file.ok
            THEN /\ track_names' = file.names
                 /\ pc' = "NewReader"
                 /\ UNCHANGED <<result, error>>
            ELSE /\ Fail("tracks")
                 /\ UNCHANGED track_names
    /\ UNCHANGED nonConvertVars
    /\ UNCHANGED <<track_list_filter, slice, dir, prior_out, out, reader,
                   warnings, channel_plan, tasks, processed_channels,
                   processed_names, events, report>>

(***************************************************************************)
(* 2. Parse DTS metadata (conversion.rs 162-165).                          *)
(***************************************************************************)
NewReader ==
    /\ pc = "NewReader"
    /\ \E d \in DirSet :
          LET r == DtsReaderNew(d)
          IN  /\ dir' = d
              /\ IF r.built
                    THEN /\ reader' = r
                         /\ pc' = "BuildChannelPlan"
                         /\ UNCHANGED <<result, error>>
                    ELSE /\ Fail("reader")
                         /\ UNCHANGED reader
    /\ UNCHANGED nonConvertVars
    /\ UNCHANGED <<track_list_filter, slice, prior_out, out, track_names,
                   warnings, channel_plan, tasks, processed_channels,
                   processed_names, events, report>>

ProgressEvent(ev, a, b, name) == [ev |-> ev, a |-> a, b |-> b, name |-> name]

\* Variant: the output file is created and truncated before extraction.
PlanChannels_OpensOutput ==
    /\ pc = "BuildChannelPlan"
    /\ \E f \in FilterSet, sl \in SliceSet :
          LET built == BuildChannelPlan(f, track_names, channel_count(reader))
          IN  /\ track_list_filter' = f
              /\ slice' = sl
              /\ channel_plan' = built.plan
              /\ warnings' = built.warnings
              /\ tasks' = [i \in 1..Len(built.plan) |-> "pending"]
              /\ events' = Append(events,
                                  ProgressEvent("Started", Len(track_names),
                                                Len(built.plan), ""))
    /\ out' = [exists |-> TRUE, blocks |-> <<>>]
    /\ pc' = "ParallelExtract"
    /\ UNCHANGED nonConvertVars
    /\ UNCHANGED <<dir, prior_out, track_names, reader, processed_channels,
                   processed_names, result, error, report>>

(***************************************************************************)
(* The channel plan and progress(Started) (conversion.rs 167-196).         *)
(***************************************************************************)
PlanChannels ==
    /\ pc = "BuildChannelPlan"
    /\ \E f \in FilterSet, sl \in SliceSet :
          LET built == BuildChannelPlan(f, track_names, channel_count(reader))
          IN  /\ track_list_filter' = f
              /\ slice' = sl
              /\ channel_plan' = built.plan
              /\ warnings' = built.warnings
              /\ tasks' = [i \in 1..Len(built.plan) |-> "pending"]
              /\ events' = Append(events,
                                  ProgressEvent("Started", Len(track_names),
                                                Len(built.plan), ""))
    /\ pc' = "ParallelExtract"
    /\ UNCHANGED nonConvertVars
    /\ UNCHANGED <<dir, prior_out, out, track_names, reader,
                   processed_channels, processed_names, result, error, report>>

(***************************************************************************)
(* 3. Read channel data in parallel (conversion.rs 198-223).  The tasks    *)
(* of the parallel iterator finish in any order; once one has failed, the  *)
(* iterator may drop tasks that have not started.                          *)
(***************************************************************************)
ExtractTask(i) ==
    /\ pc = "ParallelExtract"
    /\ tasks[i] = "pending"
    /\ LET res == ExtractChannel(reader, dir, track_names, slice,
                                 channel_plan[i][1], channel_plan[i][2])
       IN  /\ tasks' = [tasks EXCEPT ![i] = res.status]
           /\ processed_channels' =
                  IF res.status = "ok" THEN Append(processed_channels, res)
                  ELSE processed_channels
    /\ UNCHANGED nonConvertVars
    /\ UNCHANGED <<track_list_filter, slice, dir, prior_out, out, pc,
                   track_names, reader, warnings, channel_plan,
                   processed_names, events, result, error, report>>

TaskFailed(i) == tasks[i] \in {"read_track", "slice"}

SkipTask(i) ==
    /\ pc = "ParallelExtract"
    /\ tasks[i] = "pending"
    /\ \E j \in 1..Len(tasks) : TaskFailed(j)
    /\ tasks' = [tasks EXCEPT ![i] = "skipped"]
    /\ UNCHANGED nonConvertVars
    /\ UNCHANGED <<track_list_filter, slice, dir, prior_out, out, pc,
                   track_names, reader, warnings, channel_plan,
                   processed_channels, processed_names, events, result, error,
                   report>>

\* .collect::<Result<Vec<_>>>()? with an Err among the results.
CollectErr ==
    /\ pc = "ParallelExtract"
    /\ \A i \in 1..Len(tasks) : tasks[i] # "pending"
    /\ \E j \in 1..Len(tasks) :
          /\ TaskFailed(j)
          /\ Fail(tasks[j])
    /\ UNCHANGED nonConvertVars
    /\ UNCHANGED <<track_list_filter, slice, dir, prior_out, out,
                   track_names, reader, warnings, channel_plan, tasks,
                   processed_channels, processed_names, events, report>>

\* Variant: failed results are dropped and the rest is written.
CollectOk_DropFailed ==
    /\ pc = "ParallelExtract"
    /\ \A i \in 1..Len(tasks) : tasks[i] # "pending"
    /\ processed_channels' = SortByOrder(processed_channels)
    /\ pc' = "OpenOutput"
    /\ UNCHANGED nonConvertVars
    /\ UNCHANGED <<track_list_filter, slice, dir, prior_out, out,
                   track_names, reader, warnings, channel_plan, tasks,
                   processed_names, events, result, error, report>>

\* .collect::<Result<Vec<_>>>()? with every result Ok, then sort_by_key.
CollectOk ==
    /\ pc = "ParallelExtract"
    /\ \A i \in 1..Len(tasks) : tasks[i] = "ok"
    /\ processed_channels' = SortByOrder(processed_channels)
    /\ pc' = "OpenOutput"
    /\ UNCHANGED nonConvertVars
    /\ UNCHANGED <<track_list_filter, slice, dir, prior_out, out,
                   track_names, reader, warnings, channel_plan, tasks,
                   processed_names, events, result, error, report>>

(***************************************************************************)
(* 4. Stream channel data into the output file (conversion.rs 227-271).    *)
(***************************************************************************)
\* OpenOptions write/create/truncate
OpenOutput ==
    /\ pc = "OpenOutput"
    /\ out' = [exists |-> TRUE, blocks |-> <<>>]
    /\ pc' = "OrderedWrite"
    /\ UNCHANGED nonConvertVars
    /\ UNCHANGED <<track_list_filter, slice, dir, prior_out, track_names,
                   reader, warnings, channel_plan, tasks, processed_channels,
                   processed_names, events, result, error, report>>

OpenFail ==
    /\ pc = "OpenOutput"
    /\ Fail("open")
    /\ UNCHANGED nonConvertVars
    /\ UNCHANGED <<track_list_filter, slice, dir, prior_out, out,
                   track_names, reader, warnings, channel_plan, tasks,
                   processed_channels, processed_names, events, report>>

\* The dataset block of one channel; order and channel record where the
\* block came from.
Block(res) == [order |-> res.order, channel |-> res.channel,
               name |-> res.name, series |-> res.series]

\* (Variant first: completed counts from zero.)
WriteBlock_ZeroBased ==
    /\ pc = "OrderedWrite"
    /\ Len(processed_names) < Len(processed_channels)
    /\ LET position == Len(processed_names)
           res == processed_channels[position + 1]
       IN  /\ out' = [out EXCEPT !.blocks = Append(@, Block(res))]
           /\ events' = Append(events,
                               ProgressEvent("Advanced", position,
                                             Len(processed_channels), res.name))
           /\ processed_names' = Append(processed_names, res.name)
    /\ UNCHANGED nonConvertVars
    /\ UNCHANGED <<track_list_filter, slice, dir, prior_out, pc, track_names,
                   reader, warnings, channel_plan, tasks, processed_channels,
                   result, error, report>>

\* One iteration of the write loop: the codec call, progress(Advanced), push.
WriteBlock ==
    /\ pc = "OrderedWrite"
    /\ Len(processed_names) < Len(processed_channels)
    /\ LET position == Len(processed_names)
           res == processed_channels[position + 1]
       IN  /\ out' = [out EXCEPT !.blocks = Append(@, Block(res))]
           /\ events' = Append(events,
                               ProgressEvent("Advanced", position + 1,
                                             Len(processed_channels), res.name))
           /\ processed_names' = Append(processed_names, res.name)
    /\ UNCHANGED nonConvertVars
    /\ UNCHANGED <<track_list_filter, slice, dir, prior_out, pc, track_names,
                   reader, warnings, channel_plan, tasks, processed_channels,
                   result, error, report>>

\* The codec call returns an I/O error.
WriteFail ==
    /\ pc = "OrderedWrite"
    /\ Len(processed_names) < Len(processed_channels)
    /\ Fail("write")
    /\ UNCHANGED nonConvertVars
    /\ UNCHANGED <<track_list_filter, slice, dir, prior_out, out,
                   track_names, reader, warnings, channel_plan, tasks,
                   processed_channels, processed_names, events, report>>

FlushFail ==
    /\ pc = "OrderedWrite"
    /\ Len(processed_names) = Len(processed_channels)
    /\ Fail("flush")
    /\ UNCHANGED nonConvertVars
    /\ UNCHANGED <<track_list_filter, slice, dir, prior_out, out,
                   track_names, reader, warnings, channel_plan, tasks,
                   processed_channels, processed_names, events, report>>

\* The warnings pushed after the write loop (conversion.rs 273-287).
FinalWarnings(warns, n_names, num_channels, filtered, processed_channel_count) ==
    LET w1 == IF n_names # num_channels
                THEN Append(warns, CountMismatchWarning(n_names, num_channels))
                ELSE warns
    IN  IF ~filtered /\ processed_channel_count # num_channels
          THEN Append(w1, ProcessedMismatchWarning(num_channels,
                                                   processed_channel_count))
          ELSE w1

\* (Variant first: channel_count reports the channels of the directory.)
Finish_CountsAllChannels ==
    /\ pc = "OrderedWrite"
    /\ Len(processed_names) = Len(processed_channels)
    /\ events' = Append(events, ProgressEvent("Finished", 0, 0, ""))
    /\ warnings' = FinalWarnings(warnings, Len(track_names),
                                 channel_count(reader), track_list_filter.some,
                                 Len(processed_names))
    /\ report' = [channel_count |-> channel_count(reader),
                  track_name_count |-> Len(track_names),
                  processed_track_names |-> processed_names,
                  warnings |-> warnings']
    /\ pc' = "done"
    /\ result' = "ok"
    /\ UNCHANGED nonConvertVars
    /\ UNCHANGED <<track_list_filter, slice, dir, prior_out, out,
                   track_names, reader, channel_plan, tasks,
                   processed_channels, processed_names, error>>

\* flush, progress(Finished), the final warnings and the report.
Finish ==
    /\ pc = "OrderedWrite"
    /\ Len(processed_names) = Len(processed_channels)
    /\ events' = Append(events, ProgressEvent("Finished", 0, 0, ""))
    /\ warnings' = FinalWarnings(warnings, Len(track_names),
                                 channel_count(reader), track_list_filter.some,
                                 Len(processed_names))
    /\ report' = [channel_count |-> Len(processed_names),
                  track_name_count |-> Len(track_names),
                  processed_track_names |-> processed_names,
                  warnings |-> warnings']
    /\ pc' = "done"
    /\ result' = "ok"
    /\ UNCHANGED nonConvertVars
    /\ UNCHANGED <<track_list_filter, slice, dir, prior_out, out,
                   track_names, reader, channel_plan, tasks,
                   processed_channels, processed_names, error>>

Next ==
    \/ ReadTrackNames
    \/ NewReader
    \/ PlanChannels
    \/ \E i \in 1..Len(tasks) : ExtractTask(i)
    \/ \E i \in 1..Len(tasks) : SkipTask(i)
    \/ CollectErr
    \/ CollectOk
    \/ OpenOutput
    \/ OpenFail
    \/ WriteBlock
    \/ WriteFail
    \/ FlushFail
    \/ Finish

Spec == Init /\ [][Next]_vars
(***************************************************************************)
(* Positions of the call.                                                  *)
(***************************************************************************)
\* The reader has been constructed and the channel plan computed.
PlanBuilt ==
    \/ pc \in {"ParallelExtract", "OpenOutput", "OrderedWrite"}
    \/ pc = "done" /\ error \notin {"tracks", "reader"}

\* The output file has been opened (created or truncated) by this call.
Opened ==
    \/ pc = "OrderedWrite"
    \/ pc = "done" /\ error \in {"none", "write", "flush"}

\* The smallest header sample count over the .chn files of the directory.
TrueMinNpts == Min({dir.chn[i].npts : i \in 1..Len(dir.chn)})

(***************************************************************************)
(* C1: for every completion order of the extraction tasks, the blocks in   *)
(* the output are, at every moment of the write phase, the first blocks    *)
(* of the plan in plan order, with strictly increasing order keys; they    *)
(* are channels 0, 1, ... when there is no filter; and                     *)
(* processed_track_names lists the written blocks' names in that order.    *)
(***************************************************************************)
C1_OrderedWrite ==
    Opened =>
        /\ Len(out.blocks) <= Len(channel_plan)
        /\ \A i \in 1..Len(out.blocks) :
              /\ out.blocks[i].order = channel_plan[i][1]
              /\ out.blocks[i].channel = channel_plan[i][2]
              /\ ~track_list_filter.some => out.blocks[i].channel = i - 1
        /\ \A i, j \in 1..Len(out.blocks) :
              i < j => out.blocks[i].order < out.blocks[j].order
        /\ Len(processed_names) = Len(out.blocks)
        /\ \A i \in 1..Len(out.blocks) : processed_names[i] = out.blocks[i].name
        /\ result = "ok" =>
              /\ Len(out.blocks) = Len(channel_plan)
              /\ report.processed_track_names = processed_names

C1_Witness ==
    /\ result = "ok"
    /\ ~track_list_filter.some
    /\ Len(out.blocks) = MaxChannels
    /\ report.processed_track_names = <<"a", "b">>

(***************************************************************************)
(* C2: with a filter, for two matched requests at filter positions p < q   *)
(* the block of the channel matched by p is written before the block of    *)
(* the channel matched by q, whatever the channel indices are.             *)
(***************************************************************************)
BlockPositions(channel_index) ==
    {b \in 1..Len(out.blocks) : out.blocks[b].channel = channel_index}

C2_RequestedOrder ==
    (Opened /\ track_list_filter.some) =>
        \A i, j \in 1..Len(channel_plan) :
            channel_plan[i][1] < channel_plan[j][1] =>
                /\ \A bj \in BlockPositions(channel_plan[j][2]) :
                      \E bi \in BlockPositions(channel_plan[i][2]) : bi < bj
                /\ result = "ok" => BlockPositions(channel_plan[j][2]) # {}

C2_Witness ==
    /\ result = "ok"
    /\ track_list_filter.some
    /\ Len(out.blocks) = 2
    /\ out.blocks[1].channel > out.blocks[2].channel
    /\ track_list_filter.names[1] = out.blocks[1].name
    /\ track_list_filter.names[2] = out.blocks[2].name

(***************************************************************************)
(* C3: a request has a match exactly when the track-name list holds more   *)
(* entries of its name than earlier requests asked for.  Every request     *)
(* without a match yields exactly one "was not found" warning and no plan  *)
(* entry; every request with a match yields one plan entry and no          *)
(* warning; the report carries these warnings.                             *)
(***************************************************************************)
Occurrences(s, x) == Cardinality({i \in 1..Len(s) : s[i] = x})

\* Is the request at filter position p (0-based) one that has a match?
HasMatch(p) ==
    LET f == track_list_filter.names
    IN  Occurrences(SubSeq(f, 1, p), f[p + 1]) < Occurrences(track_names, f[p + 1])

UnmatchedRequests(name) ==
    {p \in 0..(Len(track_list_filter.names) - 1) :
         track_list_filter.names[p + 1] = name /\ ~HasMatch(p)}

C3_OneWarningPerUnmatched ==
    (PlanBuilt /\ track_list_filter.some) =>
        /\ \A name \in Names :
              /\ Occurrences(warnings, NotFoundWarning(name))
                     = Cardinality(UnmatchedRequests(name))
              /\ result = "ok" =>
                     Occurrences(report.warnings, NotFoundWarning(name))
                         = Cardinality(UnmatchedRequests(name))
        /\ \A p \in 0..(Len(track_list_filter.names) - 1) :
              Cardinality({i \in 1..Len(channel_plan) : channel_plan[i][1] = p})
                  = IF HasMatch(p) THEN 1 ELSE 0
        /\ result = "ok" =>
              \A b \in 1..Len(out.blocks) : HasMatch(out.blocks[b].order)

C3_Witness ==
    /\ result = "ok"
    /\ track_list_filter.some
    /\ track_list_filter.names = <<"a", "a">>
    /\ track_names = <<"a", "b">>
    /\ Len(out.blocks) = 1
    /\ report.warnings = <<NotFoundWarning("a")>>

(***************************************************************************)
(* C4: a filter never aborts a conversion: when a filtered call fails in   *)
(* the extraction of a channel, the same call without the filter fails     *)
(* as well.                                                                *)
(***************************************************************************)
\* Would every channel of the directory extract without the filter?
UnfilteredExtracts ==
    \A ch \in 0..(channel_count(reader) - 1) :
        ExtractChannel(reader, dir, track_names, slice, ch, ch).status = "ok"

C4_FilterNeverAborts ==
    (pc = "done" /\ track_list_filter.some /\ error \in {"read_track", "slice"})
        => ~UnfilteredExtracts

(***************************************************************************)
(* C5 as stated: with a slice whose start >= end, or whose end exceeds the *)
(* length of the truncated series, the conversion returns no report.       *)
(***************************************************************************)
BadSlice ==
    /\ slice.some
    /\ \/ slice.start >= slice.end
       \/ slice.end > reader.min_npts

C6_SliceIsIndexRange ==
    (Opened /\ slice.some) =>
        \A b \in 1..Len(out.blocks) :
            LET src == read_track(reader, dir, out.blocks[b].channel).time_series
                start == slice.start
                end == slice.end
            IN  /\ 0 <= start /\ start < end /\ end <= Len(src)
                /\ Len(out.blocks[b].series) = end - start
                /\ \A k \in 0..(end - start - 1) :
                      /\ out.blocks[b].series[k + 1] = src[start + k + 1]
                      /\ out.blocks[b].series[k + 1]
                             = Sample(out.blocks[b].channel, start + k)

C6_Witness ==
    /\ result = "ok"
    /\ slice.some
    /\ slice.start = 1
    /\ slice.end = 2
    /\ Len(out.blocks) = 2
    /\ out.blocks[2].series = <<Sample(out.blocks[2].channel, 1)>>

(***************************************************************************)
(* C7: the call ends with Ok and a complete report (every planned channel  *)
(* extracted and listed) or with an error and no report; if the            *)
(* extraction of any planned channel fails, it ends with an error,         *)
(* whatever the other tasks did and in whatever order.                     *)
(***************************************************************************)
PlannedExtractionFails ==
    \E i \in 1..Len(channel_plan) :
        ExtractChannel(reader, dir, track_names, slice,
                       channel_plan[i][1], channel_plan[i][2]).status # "ok"

C7_AllOrNothing ==
    pc = "done" =>
        /\ result \in {"ok", "err"}
        /\ result = "err" <=> error # "none"
        /\ result = "err" => report = NoReport
        /\ result = "ok" =>
              /\ report.channel_count = Len(channel_plan)
              /\ Len(report.processed_track_names) = Len(channel_plan)
              /\ \A i \in 1..Len(tasks) : tasks[i] = "ok"
        /\ (PlanBuilt /\ PlannedExtractionFails) =>
              /\ result = "err"
              /\ error \in {"read_track", "slice"}

C7_Witness ==
    /\ pc = "done"
    /\ result = "err"
    /\ Len(tasks) = 2
    /\ tasks[1] = "ok"
    /\ tasks[2] = "read_track"
    /\ Len(processed_channels) = 1

(***************************************************************************)
(* C8: until every channel has been extracted the output path keeps its    *)
(* prior state; a call that fails in reading the track names, in           *)
(* DtsReader::new or in a channel's extraction or slicing returns with     *)
(* the output path as it was before the call.                              *)
(***************************************************************************)
C8_NoWriteBeforeSuccess ==
    /\ pc \in {"ReadTrackNames", "NewReader", "BuildChannelPlan",
               "ParallelExtract", "OpenOutput"} => out = prior_out
    /\ (pc = "done" /\ error \in {"tracks", "reader", "read_track", "slice"})
           => out = prior_out

C8_Witness ==
    /\ pc = "done"
    /\ error = "slice"
    /\ prior_out.exists
    /\ out = prior_out
    /\ \E i \in 1..Len(tasks) : tasks[i] = "skipped"

(***************************************************************************)
(* C9: DtsReader::new yields a reader only if the number of .chn files     *)
(* equals the number of XML channel entries, and fails when they differ;   *)
(* in a reader, channel_count() equals both counts and the metadata,       *)
(* header and file lists have that length.                                 *)
(***************************************************************************)
C9_CountsAgree ==
    /\ reader.built =>
          /\ Len(dir.chn) = dir.n_meta
          /\ channel_count(reader) = Len(dir.chn)
          /\ channel_count(reader) = dir.n_meta
          /\ Len(reader.xml_metadata) = channel_count(reader)
          /\ Len(reader.chn_headers) = channel_count(reader)
          /\ Len(reader.chn_files) = channel_count(reader)
    /\ (pc \notin {"ReadTrackNames", "NewReader"} /\ error # "tracks"
            /\ Len(dir.chn) # dir.n_meta)
          => (~reader.built /\ result = "err" /\ error = "reader")

C9_Witness ==
    /\ reader.built
    /\ channel_count(reader) = MaxChannels
    /\ dir.n_meta = MaxChannels

(***************************************************************************)
(* C10: a successful read_track returns exactly min_npts samples, the      *)
(* smallest header sample count of the directory, for every channel;       *)
(* without a slice every extracted and written series has that length,     *)
(* and a slice is accepted exactly when its end is within min_npts,        *)
(* whatever the channel's own sample count.                                *)
(***************************************************************************)
C10_MinNptsSamples ==
    (PlanBuilt /\ channel_count(reader) > 0) =>
        /\ reader.min_npts = TrueMinNpts
        /\ \A ch \in 0..(channel_count(reader) - 1) :
              read_track(reader, dir, ch).ok =>
                  Len(read_track(reader, dir, ch).time_series) = TrueMinNpts
        /\ ~slice.some =>
              /\ \A i \in 1..Len(processed_channels) :
                    Len(processed_channels[i].series) = TrueMinNpts
              /\ Opened => \A b \in 1..Len(out.blocks) :
                    Len(out.blocks[b].series) = TrueMinNpts
        /\ slice.some =>
              \A i \in 1..Len(tasks) :
                  /\ tasks[i] = "ok" => slice.end <= TrueMinNpts
                  /\ (tasks[i] = "slice" /\ slice.start < slice.end)
                         => slice.end > TrueMinNpts

C10_Witness ==
    /\ result = "ok"
    /\ ~slice.some
    /\ Len(out.blocks) = 2
    /\ dir.chn[1].npts > dir.chn[2].npts
    /\ Len(out.blocks[1].series) = dir.chn[2].npts

(***************************************************************************)
(* The order of the warning strings (String's Ord: byte-wise).  The three  *)
(* texts start with "Channel count", "Number of track names" and           *)
(* "Requested track '<name>'": 'C' < 'N' < 'R'; two not-found warnings     *)
(* compare by the requested name.                                          *)
(***************************************************************************)
KindRank(kind) == CASE kind = "processed_mismatch" -> 1
                    [] kind = "count_mismatch" -> 2
                    [] kind = "not_found" -> 3

NameRank(name) == CASE name = "a" -> 1 [] name = "b" -> 2 [] OTHER -> 0

WarningLess(w1, w2) ==
    \/ KindRank(w1.kind) < KindRank(w2.kind)
    \/ /\ w1.kind = w2.kind
       /\ \/ NameRank(w1.name) < NameRank(w2.name)
          \/ w1.name = w2.name /\ w1.x < w2.x
          \/ w1.name = w2.name /\ w1.x = w2.x /\ w1.y < w2.y

(***************************************************************************)
(* C11 as stated: the warnings of every returned report are sorted in      *)
(* ascending order and hold no string twice, i.e. each warning is strictly *)
(* less than every later one.                                              *)
(***************************************************************************)
C11_WarningsSortedUnique ==
    result = "ok" =>
        \A i, j \in 1..Len(report.warnings) :
            i < j => WarningLess(report.warnings[i], report.warnings[j])

(***************************************************************************)
(* C12: without a filter a difference between the number of track names    *)
(* and channel_count() never aborts the conversion: a failed call is       *)
(* explained by something other than the counts, and a returned report     *)
(* holds the count-mismatch warning exactly when the counts differ, every  *)
(* channel is written, and a channel without a track name is labelled      *)
(* Channel_<index+1>.                                                      *)
(***************************************************************************)
\* Some .chn file of the directory holds fewer samples than min_npts.
SomeFileTruncated ==
    \E i \in 1..Len(dir.chn) : dir.chn[i].avail < reader.min_npts

C12_CountMismatchIsWarning ==
    (pc = "done" /\ ~track_list_filter.some) =>
        /\ error \in {"none", "tracks", "reader", "read_track", "slice",
                      "open", "write", "flush"}
        /\ error = "read_track" => SomeFileTruncated
        /\ error = "slice" => BadSlice
        /\ result = "ok" =>
             /\ (\E i \in 1..Len(report.warnings) :
                     report.warnings[i] =
                         CountMismatchWarning(Len(track_names),
                                              channel_count(reader)))
                    <=> (Len(track_names) # channel_count(reader))
             /\ Len(out.blocks) = channel_count(reader)
             /\ \A i \in 1..Len(out.blocks) :
                    /\ out.blocks[i].channel = i - 1
                    /\ out.blocks[i].name =
                           IF i <= Len(track_names) THEN track_names[i]
                           ELSE "Channel_" \o Digit(i)
             /\ report.processed_track_names =
                    [i \in 1..Len(out.blocks) |-> out.blocks[i].name]

\* One track name for two channels: the second block is labelled Channel_2
\* and the report holds the count-mismatch warning.
C12_Witness ==
    /\ result = "ok"
    /\ ~track_list_filter.some
    /\ Len(track_names) = 1
    /\ channel_count(reader) = 2
    /\ Len(out.blocks) = 2
    /\ out.blocks[2].name = "Channel_2"
    /\ report.warnings = <<CountMismatchWarning(1, 2)>>


(***************************************************************************)
(* 8. The command-line program's pipeline (main.rs 66-133): one rayon job  *)
(* per channel sends its result through a bounded channel to a writer      *)
(* thread, which holds early arrivals in a map and writes in index order.  *)
(***************************************************************************)
NumThreads == 1         \* rayon's current_num_threads()
MaxCliChannels == 5     \* channels of the directory

\* current_num_threads().max(1) * 2
queue_bound == (IF NumThreads > 1 THEN NumThreads ELSE 1) * 2

\* OpenOptions write(true).create(true).append(a).truncate(!a), then the
\* block is written and flushed.  (Variant first: the file is always
\* truncated.)
write_uff58_file_with_format_Truncating(file, block, append_request) ==
    [exists |-> TRUE, blocks |-> <<block>>]

write_uff58_file_with_format(file, block, append_request) ==
    [exists |-> TRUE,
     blocks |-> IF append_request THEN Append(file.blocks, block)
                ELSE <<block>>]

write_uff58_file(file, block, append_request) ==
    write_uff58_file_with_format(file, block, append_request)

\* pending.remove(&next_index): whether a block is removed, and its key.
\* (Variant first: the smallest key is removed, whatever it is.)
RemoveNext_Smallest(pend, idx) ==
    [found |-> pend # {}, key |-> IF pend # {} THEN Min(pend) ELSE idx]

RemoveNext(pend, idx) == [found |-> idx \in pend, key |-> idx]

Message(ok, index) == [ok |-> ok, index |-> index]

\* The jobs that hold a worker thread, blocked in sender.send.
Blocked == {i \in DOMAIN job : job[i] \in {"send_ok", "send_err"}}

\* main.rs 30-96 when reading the track names and the metadata succeeds:
\* the output path is probed, the channel and the writer thread are
\* created, and rayon::scope spawns one job per channel.
CliStart ==
    /\ cli_pc = "start"
    /\ \E n \in 0..MaxCliChannels, f \in {NoFile, OldFile} :
         /\ cli_channels' = n
         /\ cli_prior' = f
         /\ cli_out' = f
         /\ append_flag' = f.exists
         /\ job' = [i \in 0..(n - 1) |-> "spawned"]
    /\ writer_pc' = "recv"
    /\ cli_pc' = "scope"
    /\ UNCHANGED nonCliVars
    /\ UNCHANGED <<read_fails, queue, rx_open, next_index, pending,
                   writer_result, cli_result>>

\* read_to_string or DtsReader::new returns Err: main returns it.
CliSetupFail ==
    /\ cli_pc = "start"
    /\ cli_pc' = "done"
    /\ cli_result' = "err"
    /\ UNCHANGED nonCliVars
    /\ UNCHANGED <<cli_channels, read_fails, cli_prior, cli_out, job, queue,
                   rx_open, writer_pc, append_flag, next_index, pending,
                   writer_result>>

\* (Variant first: a send on a channel whose receiver is gone stays
\* blocked.)
Send_BlocksWhenClosed(i, ok) ==
    IF rx_open /\ Len(queue) < queue_bound
      THEN /\ job' = [job EXCEPT ![i] = "done"]
           /\ queue' = Append(queue, Message(ok, i))
      ELSE /\ job' = [job EXCEPT ![i] = IF ok THEN "send_ok" ELSE "send_err"]
           /\ UNCHANGED queue

\* sender.send(result) of job i: Err (ignored) when the receiver is gone,
\* buffered when there is room, blocked otherwise.
Send(i, ok) ==
    IF ~rx_open
      THEN /\ job' = [job EXCEPT ![i] = "done"]
           /\ UNCHANGED queue
    ELSE IF Len(queue) < queue_bound
      THEN /\ job' = [job EXCEPT ![i] = "done"]
           /\ queue' = Append(queue, Message(ok, i))
    ELSE /\ job' = [job EXCEPT ![i] = IF ok THEN "send_ok" ELSE "send_err"]
         /\ UNCHANGED queue

\* A free worker thread takes job i: read_track(i), then send.
RunJob(i) ==
    /\ cli_pc = "scope"
    /\ job[i] = "spawned"
    /\ Cardinality(Blocked) < NumThreads
    /\ \E ok \in BOOLEAN :
         /\ read_fails' = IF ok THEN read_fails ELSE read_fails \cup {i}
         /\ Send(i, ok)
    /\ UNCHANGED nonCliVars
    /\ UNCHANGED <<cli_pc, cli_channels, cli_prior, cli_out, rx_open,
                   writer_pc, append_flag, next_index, pending,
                   writer_result, cli_result>>

\* A blocked send of job i goes on.
SendBlocked(i) ==
    /\ job[i] \in {"send_ok", "send_err"}
    /\ ~rx_open \/ Len(queue) < queue_bound
    /\ Send(i, job[i] = "send_ok")
    /\ UNCHANGED nonCliVars
    /\ UNCHANGED <<cli_pc, cli_channels, read_fails, cli_prior, cli_out,
                   rx_open, writer_pc, append_flag, next_index, pending,
                   writer_result, cli_result>>

\* rayon::scope returns when every job has finished; drop(tx).
ScopeDone ==
    /\ cli_pc = "scope"
    /\ \A i \in DOMAIN job : job[i] = "done"
    /\ cli_pc' = "join"
    /\ UNCHANGED nonCliVars
    /\ UNCHANGED <<cli_channels, read_fails, cli_prior, cli_out, job, queue,
                   rx_open, writer_pc, append_flag, next_index, pending,
                   writer_result, cli_result>>

\* The writer returns Err: rx and the map are dropped with the closure.
WriterReturnsErr(kind) ==
    /\ writer_pc' = "done"
    /\ writer_result' = kind
    /\ rx_open' = FALSE
    /\ queue' = <<>>
    /\ pending' = {}

\* `for received in rx` yields Ok((index, ..)): pending.insert; the while
\* loop is entered when the next expected index is in the map.
WriterRecvOk ==
    /\ writer_pc = "recv"
    /\ queue # <<>>
    /\ Head(queue).ok
    /\ queue' = Tail(queue)
    /\ pending' = pending \cup {Head(queue).index}
    /\ writer_pc' = IF RemoveNext(pending', next_index).found THEN "drain"
                    ELSE "recv"
    /\ UNCHANGED nonCliVars
    /\ UNCHANGED <<cli_pc, cli_channels, read_fails, cli_prior, cli_out, job,
                   rx_open, append_flag, next_index, writer_result,
                   cli_result>>

\* `received?` on an Err message.
WriterRecvErr ==
    /\ writer_pc = "recv"
    /\ queue # <<>>
    /\ ~Head(queue).ok
    /\ WriterReturnsErr("err_read")
    /\ UNCHANGED nonCliVars
    /\ UNCHANGED <<cli_pc, cli_channels, read_fails, cli_prior, cli_out, job,
                   append_flag, next_index, cli_result>>

\* One iteration of a while loop (main.rs 81-85 and 89-93): the block
\* removed from the map is written, append_flag is set, next_index moves on.
WriterWrite ==
    /\ writer_pc \in {"drain", "flush"}
    /\ LET removed == RemoveNext(pending, next_index)
       IN  /\ removed.found
           /\ cli_out' = write_uff58_file(cli_out, removed.key, append_flag)
           /\ pending' = pending \ {removed.key}
    /\ append_flag' = TRUE
    /\ next_index' = next_index + 1
    /\ IF RemoveNext(pending', next_index').found
         THEN UNCHANGED <<writer_pc, writer_result>>
       ELSE IF writer_pc = "drain"
         THEN writer_pc' = "recv" /\ UNCHANGED writer_result
       ELSE writer_pc' = "done" /\ writer_result' = "ok"
    /\ UNCHANGED nonCliVars
    /\ UNCHANGED <<cli_pc, cli_channels, read_fails, cli_prior, job, queue,
                   rx_open, cli_result>>

\* write_uff58_file returns an I/O error (the path cannot be opened).
WriterWriteFail ==
    /\ writer_pc \in {"drain", "flush"}
    /\ RemoveNext(pending, next_index).found
    /\ WriterReturnsErr("err_write")
    /\ UNCHANGED nonCliVars
    /\ UNCHANGED <<cli_pc, cli_channels, read_fails, cli_prior, cli_out, job,
                   append_flag, next_index, cli_result>>

\* The for loop ends: the channel is empty and every sender is dropped
\* (the jobs' clones when they finish, tx after the scope).  The flush loop
\* follows.
WriterDisconnected ==
    /\ writer_pc = "recv"
    /\ queue = <<>>
    /\ cli_pc = "join"
    /\ IF RemoveNext(pending, next_index).found
         THEN writer_pc' = "flush" /\ UNCHANGED writer_result
         ELSE writer_pc' = "done" /\ writer_result' = "ok"
    /\ UNCHANGED nonCliVars
    /\ UNCHANGED <<cli_pc, cli_channels, read_fails, cli_prior, cli_out, job,
                   queue, rx_open, append_flag, next_index, pending,
                   cli_result>>

\* writer_handle.join()??: main returns what the writer returned.
Join ==
    /\ cli_pc = "join"
    /\ writer_pc = "done"
    /\ cli_result' = IF writer_result = "ok" THEN "ok" ELSE "err"
    /\ cli_pc' = "done"
    /\ UNCHANGED nonCliVars
    /\ UNCHANGED <<cli_channels, read_fails, cli_prior, cli_out, job, queue,
                   rx_open, writer_pc, append_flag, next_index, pending,
                   writer_result>>

NextCli ==
    \/ CliStart
    \/ CliSetupFail
    \/ \E i \in DOMAIN job : RunJob(i)
    \/ \E i \in DOMAIN job : SendBlocked(i)
    \/ ScopeDone
    \/ WriterRecvOk
    \/ WriterRecvErr
    \/ WriterWrite
    \/ WriterWriteFail
    \/ WriterDisconnected
    \/ Join

SpecCli == Init /\ [][NextCli]_vars

\* The steps of main, of the writer thread and of the rayon workers.
MainStep == CliStart \/ CliSetupFail \/ ScopeDone \/ Join

WriterStep ==
    \/ WriterRecvOk
    \/ WriterRecvErr
    \/ WriterWrite
    \/ WriterWriteFail
    \/ WriterDisconnected

WorkerStep == \E i \in DOMAIN job : RunJob(i) \/ SendBlocked(i)

\* main and the writer are threads of their own and the rayon pool has at
\* least one worker: each of them goes on whenever it can take a step.
FairSpecCli ==
    /\ SpecCli
    /\ WF_vars(MainStep)
    /\ WF_vars(WriterStep)
    /\ WF_vars(WorkerStep)

(***************************************************************************)
(* C13: the reorder-buffer writer is equivalent to collect-sort-write.     *)
(* From an absent output file the file always holds the blocks             *)
(* 0..next_index-1 in increasing order, each exactly once; the writer      *)
(* never waits for a message while the next expected index is in its map;  *)
(* and when no extraction (and no write) failed, main returns Ok with the  *)
(* file holding the blocks 0..N-1, which is what collect-sort-write        *)
(* leaves, whatever the order of arrival was.                              *)
(***************************************************************************)
\* What collecting n results, sorting them by index and writing them in a
\* loop leaves in a fresh file.
CollectSortWrite(n) == [k \in 1..n |-> k - 1]

C13_ReorderEqualsSortWrite ==
    (writer_pc # "idle" /\ ~cli_prior.exists) =>
        /\ cli_out.blocks = CollectSortWrite(next_index)
        /\ \A i \in pending : i >= next_index
        /\ writer_pc = "recv" => next_index \notin pending
        /\ (cli_pc = "done" /\ read_fails = {} /\ writer_result # "err_write")
              => /\ cli_result = "ok"
                 /\ cli_out.blocks = CollectSortWrite(cli_channels)

\* Channels 2 and 3 arrived before channel 1: block 0 is written and the
\* two wait in the map.
C13_Witness ==
    /\ ~cli_prior.exists
    /\ writer_pc = "recv"
    /\ cli_out.blocks = <<0>>
    /\ next_index = 1
    /\ pending = {2, 3}

(***************************************************************************)
(* C14 as stated: when the read_track of any channel fails, main returns   *)
(* an error and no channel block has been written to the output.           *)
(***************************************************************************)
C14_FailureWritesNothing ==
    (cli_pc = "done" /\ read_fails # {}) =>
        /\ cli_result = "err"
        /\ cli_out = cli_prior

(***************************************************************************)
(* C15 as stated: the entries held in the channel plus those held in the   *)
(* writer's map never exceed a bound that does not depend on the number    *)
(* of channels: the capacity of the channel plus one result per worker     *)
(* thread.                                                                 *)
(***************************************************************************)
Held == Len(queue) + Cardinality(pending)

C15_HeldBounded == Held <= queue_bound + NumThreads

(***************************************************************************)
(* 9. write_uff58_file_with_format called on one path several times        *)
(* (uff.rs 472-491), as tests/matlab_comparison.rs does: a file is a       *)
(* sequence of blocks, block k being the one written by the k-th call.     *)
(***************************************************************************)
MaxWrites == 3          \* calls made on the path

\* What a call that fails after the file was opened leaves of its block.
PartialBlock == -2

\* The path before the first call: absent or holding earlier content.
PathBefore == IF uff_calls = <<>> THEN {NoFile, OldFile} ELSE {uff_path}

UffCall(append_request, block, before, ok) ==
    [append_request |-> append_request, block |-> block, before |-> before,
     ok |-> ok]

\* The call returns Ok(()).
WriteUffFile ==
    /\ Len(uff_calls) < MaxWrites
    /\ \E before \in PathBefore, append_request \in BOOLEAN :
         LET block == Len(uff_calls) + 1
         IN  /\ uff_path' = write_uff58_file_with_format(before, block,
                                                        append_request)
             /\ uff_calls' = Append(uff_calls,
                                    UffCall(append_request, block, before, TRUE))
    /\ UNCHANGED nonUffVars
    /\ UNCHANGED <<sci_args, sci_field, codec_args, codec_out>>

\* OpenOptions::open returns Err: the path is left as it was.
WriteUffFileOpenFail ==
    /\ Len(uff_calls) < MaxWrites
    /\ \E before \in PathBefore, append_request \in BOOLEAN :
         /\ uff_path' = before
         /\ uff_calls' = Append(uff_calls,
                                UffCall(append_request, Len(uff_calls) + 1,
                                        before, FALSE))
    /\ UNCHANGED nonUffVars
    /\ UNCHANGED <<sci_args, sci_field, codec_args, codec_out>>

\* The block writer or flush returns Err after the file was opened (and
\* truncated, without append_request): part of the block is in the file.
WriteUffFileWriteFail ==
    /\ Len(uff_calls) < MaxWrites
    /\ \E before \in PathBefore, append_request \in BOOLEAN :
         /\ uff_path' = write_uff58_file_with_format(before, PartialBlock,
                                                    append_request)
         /\ uff_calls' = Append(uff_calls,
                                UffCall(append_request, Len(uff_calls) + 1,
                                        before, FALSE))
    /\ UNCHANGED nonUffVars
    /\ UNCHANGED <<sci_args, sci_field, codec_args, codec_out>>

NextFile ==
    \/ WriteUffFile
    \/ WriteUffFileOpenFail
    \/ WriteUffFileWriteFail

SpecFile == Init /\ [][NextFile]_vars

(***************************************************************************)
(* C16: a successful call without append_request leaves the file holding   *)
(* exactly the new block, whatever it held; a successful call with         *)
(* append_request leaves the earlier content as a prefix, followed by      *)
(* exactly the new block; so one truncating call followed by appending     *)
(* calls, all successful, leaves the blocks of the calls in call order.    *)
(***************************************************************************)
\* The first call truncates, the later ones append, and all return Ok.
TruncateThenAppend ==
    /\ uff_calls # <<>>
    /\ \A k \in 1..Len(uff_calls) :
          /\ uff_calls[k].ok
          /\ uff_calls[k].append_request <=> (k > 1)

C16_TruncateOrAppend ==
    /\ \A k \in 1..Len(uff_calls) :
          LET call == uff_calls[k]
              after == IF k < Len(uff_calls) THEN uff_calls[k + 1].before
                       ELSE uff_path
          IN  call.ok =>
                /\ after.exists
                /\ ~call.append_request => after.blocks = <<call.block>>
                /\ call.append_request =>
                      after.blocks = call.before.blocks \o <<call.block>>
    /\ TruncateThenAppend =>
          uff_path.blocks = [k \in 1..Len(uff_calls) |-> uff_calls[k].block]

\* Earlier content discarded by the first call, then two blocks appended.
C16_Witness ==
    /\ TruncateThenAppend
    /\ Len(uff_calls) = 3
    /\ uff_calls[1].before = OldFile
    /\ uff_path.blocks = <<1, 2, 3>>

(***************************************************************************)
(* 10. write_scientific (uff.rs 76-181).  Text is a sequence of            *)
(* one-character strings.  A value is its sign, its leading decimal digit  *)
(* (0 for zero) and its decimal exponent; the digits after the point are   *)
(* copied by the code without being looked at and are written as 0.        *)
(***************************************************************************)
MinExp10 == -324        \* decimal exponent of the smallest positive f64
MaxExp10 == 308         \* decimal exponent of the largest f64

MantissaCapacity == 32  \* mantissa: [u8; 32]

Repeat(c, n) == [k \in 1..n |-> c]

Abs(n) == IF n < 0 THEN -n ELSE n

IsDigit(c) == \E d \in 0..9 : c = Digit(d)

DigitValue(c) == CHOOSE d \in 0..9 : c = Digit(d)

\* The decimal digits of n >= 0, without leading zeros.
RECURSIVE DecimalDigits(_)
DecimalDigits(n) ==
    IF n < 10 THEN <<Digit(n)>>
    ELSE Append(DecimalDigits(n \div 10), Digit(n % 10))

FiniteValue(neg, lead, exp) ==
    [kind |-> "finite", neg |-> neg, lead |-> lead, exp |-> exp]

\* The f64 values: zero and non-zero finite values of both signs, the
\* infinities and NaN.
SciValues ==
    {FiniteValue(neg, 0, 0) : neg \in BOOLEAN}
        \cup {FiniteValue(neg, 1, exp) : neg \in BOOLEAN, exp \in MinExp10..MaxExp10}
        \cup {[kind |-> "inf", neg |-> neg, lead |-> 0, exp |-> 0] : neg \in BOOLEAN}
        \cup {[kind |-> "nan", neg |-> FALSE, lead |-> 0, exp |-> 0]}

\* The two ways the block writers call write_scientific: data values
\* (uff.rs 188) and the fields of record 7 (uff.rs 249-254).
SciConfigs == {[width |-> 20, precision |-> 11], [width |-> 11, precision |-> 5]}

\* format_args!("{:.*e}", precision, value): LowerExp of f64 writes the
\* sign of a negative value, one digit, the point and `precision` digits,
\* 'e', and the exponent with a '-' when negative and no padding.
RustLowerExp(value, precision) ==
    LET sign == IF value.neg THEN <<"-">> ELSE <<>>
    IN  CASE value.kind = "inf" -> sign \o <<"i", "n", "f">>
          [] value.kind = "nan" -> <<"N", "a", "N">>
          [] OTHER ->
               sign \o <<Digit(value.lead)>>
                    \o (IF precision > 0 THEN <<".">> \o Repeat("0", precision)
                        ELSE <<>>)
                    \o <<"e">>
                    \o (IF value.exp < 0 THEN <<"-">> ELSE <<>>)
                    \o DecimalDigits(Abs(value.exp))

\* ScientificComponents::new()
NewComponents ==
    [mantissa |-> <<>>, exponent_value |-> 0, exponent_negative |-> FALSE,
     after_exponent_marker |-> FALSE, exponent_sign_consumed |-> FALSE,
     err |-> FALSE]

\* One iteration of the loop of ScientificComponents::write_str.
ComponentsByte(self, byte) ==
    IF ~self.after_exponent_marker
      THEN IF Len(self.mantissa) >= MantissaCapacity
             THEN [self EXCEPT !.err = TRUE]
             ELSE [self EXCEPT !.mantissa = Append(@, byte),
                               !.after_exponent_marker = byte \in {"e", "E"}]
    ELSE IF ~self.exponent_sign_consumed
      THEN CASE byte = "+" -> [self EXCEPT !.exponent_sign_consumed = TRUE]
             [] byte = "-" -> [self EXCEPT !.exponent_negative = TRUE,
                                           !.exponent_sign_consumed = TRUE]
             [] IsDigit(byte) -> [self EXCEPT !.exponent_sign_consumed = TRUE,
                                              !.exponent_value = DigitValue(byte)]
             [] OTHER -> [self EXCEPT !.err = TRUE]
    ELSE IF IsDigit(byte)
      THEN [self EXCEPT !.exponent_value = @ * 10 + DigitValue(byte)]
    ELSE [self EXCEPT !.err = TRUE]

\* ScientificComponents::write_str on s from position i on; the first
\* error returns.
RECURSIVE ComponentsWriteStr(_, _, _)
ComponentsWriteStr(self, s, i) ==
    IF i > Len(s) \/ self.err THEN self
    ELSE ComponentsWriteStr(ComponentsByte(self, s[i]), s, i + 1)

\* The digits of the exponent: three from 100 on, otherwise two.
\* (Variant first: the digits are written without zero padding.)
ExponentDigits_Unpadded(abs_exponent) == DecimalDigits(abs_exponent)

ExponentDigits(abs_exponent) ==
    IF abs_exponent >= 100
      THEN <<Digit(abs_exponent \div 100), Digit((abs_exponent \div 10) % 10),
             Digit(abs_exponent % 10)>>
      ELSE <<Digit(abs_exponent \div 10), Digit(abs_exponent % 10)>>

\* The spaces written before the mantissa.  (Variant first: the length of
\* the exponent is left out of the total.)
PadCount_MantissaOnly(width, mantissa_len, exponent_len) ==
    IF width > mantissa_len THEN width - mantissa_len ELSE 0

PadCount(width, mantissa_len, exponent_len) ==
    LET total_len == mantissa_len + exponent_len
    IN  IF width > total_len THEN width - total_len ELSE 0

\* write_scientific: what is written into the buffer, or the error.
write_scientific(value, width, precision) ==
    LET components == ComponentsWriteStr(NewComponents,
                                         RustLowerExp(value, precision), 1)
        mantissa_str == components.mantissa
        exponent_value == IF components.exponent_negative
                            THEN -components.exponent_value
                            ELSE components.exponent_value
        digits_str == ExponentDigits(Abs(exponent_value))
        exponent_len == 1 + Len(digits_str)
    IN  IF components.err THEN [ok |-> FALSE, text |-> <<>>]
        ELSE [ok |-> TRUE,
              text |-> Repeat(" ", PadCount(width, Len(mantissa_str),
                                            exponent_len))
                         \o mantissa_str
                         \o <<IF exponent_value < 0 THEN "-" ELSE "+">>
                         \o digits_str]

\* One call of write_scientific on an empty buffer.
FormatScientific ==
    /\ ~sci_args.called
    /\ \E value \in SciValues, config \in SciConfigs :
         /\ sci_args' = [called |-> TRUE, value |-> value,
                         width |-> config.width,
                         precision |-> config.precision]
         /\ sci_field' = write_scientific(value, config.width,
                                          config.precision)
    /\ UNCHANGED nonUffVars
    /\ UNCHANGED <<uff_path, uff_calls, codec_args, codec_out>>

NextSci == FormatScientific

SpecSci == Init /\ [][NextSci]_vars

(***************************************************************************)
(* C18 as stated: for every finite value and both configurations the       *)
(* field written by write_scientific is exactly `width` characters long.   *)
(***************************************************************************)
SciFinite == sci_args.called /\ sci_args.value.kind = "finite"

C18_FieldHasWidth ==
    SciFinite => (sci_field.ok /\ Len(sci_field.text) = sci_args.width)

(***************************************************************************)
(* C18 amended: the field is never shorter than `width` and never          *)
(* truncated.  With width 20 and precision 11 it is exactly 20 characters  *)
(* for every finite value; with width 11 and precision 5 it is exactly 11  *)
(* characters for a non-negative value whose exponent has two digits, one  *)
(* more for a negative value and one more for a three-digit exponent.      *)
(***************************************************************************)
\* The characters of mantissa, 'e', exponent sign and exponent digits.
NaturalLength ==
    (IF sci_args.value.neg THEN 1 ELSE 0) + 2 + sci_args.precision + 2
        + (IF Abs(sci_args.value.exp) >= 100 THEN 3 ELSE 2)

C18_FieldAtLeastWidth ==
    SciFinite =>
        /\ sci_field.ok
        /\ Len(sci_field.text) =
               (IF NaturalLength > sci_args.width THEN NaturalLength
                ELSE sci_args.width)
        /\ \A k \in 1..Len(sci_field.text) :
               (sci_field.text[k] = " ")
                   <=> (k <= Len(sci_field.text) - NaturalLength)
        /\ sci_args.width = 20 => Len(sci_field.text) = 20
        /\ sci_args.width = 11 =>
               Len(sci_field.text) =
                   11 + (IF sci_args.value.neg THEN 1 ELSE 0)
                      + (IF Abs(sci_args.value.exp) >= 100 THEN 1 ELSE 0)

\* -1e-100 in the record-7 configuration: a field of 13 characters.
C18_Witness ==
    /\ SciFinite
    /\ sci_args.width = 11
    /\ sci_args.value = FiniteValue(TRUE, 1, -100)
    /\ sci_field.text = <<"-", "1", ".", "0", "0", "0", "0", "0", "e",
                          "-", "1", "0", "0">>

(***************************************************************************)
(* C19: the exponent is written as an explicit sign, '+' for an exponent   *)
(* >= 0 and '-' for a negative one, followed by exactly two digits         *)
(* (zero-padded) when its magnitude is under 100 and exactly three from    *)
(* 100 on; the digits read back as the magnitude.                          *)
(***************************************************************************)
\* The position of the 'e' in the field.
MarkerAt == CHOOSE k \in 1..Len(sci_field.text) : sci_field.text[k] = "e"

RECURSIVE DecodeDigits(_)
DecodeDigits(s) ==
    IF s = <<>> THEN 0
    ELSE DecodeDigits(SubSeq(s, 1, Len(s) - 1)) * 10 + DigitValue(s[Len(s)])

C19_ExponentSignAndDigits ==
    SciFinite =>
        /\ Cardinality({k \in 1..Len(sci_field.text) :
                            sci_field.text[k] = "e"}) = 1
        /\ LET sign == sci_field.text[MarkerAt + 1]
               digits == SubSeq(sci_field.text, MarkerAt + 2,
                                Len(sci_field.text))
           IN  /\ sign = (IF sci_args.value.exp >= 0 THEN "+" ELSE "-")
               /\ Len(digits) =
                      (IF Abs(sci_args.value.exp) < 100 THEN 2 ELSE 3)
               /\ \A k \in 1..Len(digits) : IsDigit(digits[k])
               /\ DecodeDigits(digits) = Abs(sci_args.value.exp)

\* 1e-5 as a data value: the field ends in e-05.
C19_Witness ==
    /\ SciFinite
    /\ sci_args.width = 20
    /\ sci_args.value = FiniteValue(FALSE, 1, -5)
    /\ SubSeq(sci_field.text, 17, 20) = <<"e", "-", "0", "5">>

(***************************************************************************)
(* 11. The block writers write_uff58_ascii and write_uff58b (uff.rs        *)
(* 193-463).  A text is its length in characters and in bytes; a string    *)
(* argument is its length in characters and the bytes of each of its       *)
(* characters (1 for ASCII).  What is written is a sequence of records:    *)
(* `count` lines of `chars` characters and `bytes` bytes each (the newline *)
(* not counted), or the payload of `count` samples of `bytes` bytes each.  *)
(***************************************************************************)
I32_MAX == 2147483647

LineWidth == 80         \* write_line pads to 80

Text(n) == [chars |-> n, bytes |-> n]

Cat(a, b) == [chars |-> a.chars + b.chars, bytes |-> a.bytes + b.bytes]

RECURSIVE CatAll(_)
CatAll(parts) ==
    IF parts = <<>> THEN Text(0)
    ELSE Cat(parts[1], CatAll(Tail(parts)))

\* text.chars().take(width).collect()
truncate_to_width(str, width) ==
    LET n == IF str.chars < width THEN str.chars ELSE width
    IN  [chars |-> n, bytes |-> n * str.bytes_per_char]

\* {:<w} and {:>w}: spaces up to w characters, nothing cut.
Pad(text, w) ==
    LET fill == IF text.chars < w THEN w - text.chars ELSE 0
    IN  [chars |-> text.chars + fill, bytes |-> text.bytes + fill]

\* An integer formatted with {}.
Decimal(n) ==
    IF n >= 0 THEN Text(Len(DecimalDigits(n)))
    ELSE IF n = -I32_MAX - 1 THEN Text(11)
    ELSE Text(1 + Len(DecimalDigits(-n)))

\* LineBuffer::write_line: spaces up to 80 bytes, the text, "\n".
\* (Variant first: a longer text is cut to 80.)
write_line_Cut(name, text) ==
    [kind |-> "text", name |-> name, text_chars |-> text.chars,
     text_bytes |-> text.bytes, chars |-> LineWidth, bytes |-> LineWidth,
     count |-> 1]

write_line(name, text) ==
    LET fill == IF text.bytes < LineWidth THEN LineWidth - text.bytes ELSE 0
    IN  [kind |-> "text", name |-> name, text_chars |-> text.chars,
         text_bytes |-> text.bytes, chars |-> text.chars + fill,
         bytes |-> text.bytes + fill, count |-> 1]

\* The field write_scientific adds to the line.
ScientificField(value, width, precision) ==
    Text(Len(write_scientific(value, width, precision).text))

\* "{:>10}{:>5}{:>5}{:>5}{}{}" of records 8 to 11.
Characteristics(code, name_field, units_field) ==
    CatAll(<<Pad(Decimal(code), 10), Pad(Decimal(0), 5), Pad(Decimal(0), 5),
             Pad(Decimal(0), 5), name_field, units_field>>)

NameField(label) == Cat(Text(1), Pad(label, 19))

UnitsField(units, width) == Pad(Cat(Text(2), units), width)

Ascii(n) == [chars |-> n, bytes_per_char |-> 1]

\* The records both writers share: the five ID lines and records 6 to 11
\* (uff.rs 209-286 and 353-441).
CommonRecords(args, ord_data_type) ==
    LET pt_label == truncate_to_width(args.track_name, 64)
        channel_label == truncate_to_width(args.track_name, 19)
        channel_field == Pad(channel_label, 19)
        zero_field == Pad(Decimal(0), 4)
        none_field == Cat(Text(1), Pad(Text(4), 19))
        flag_field == Cat(Pad(Decimal(1), 4), Decimal(0))
        none_record == Characteristics(0, NameField(Text(4)),
                                       UnitsField(Text(4), 35))
    IN  << write_line("id1", Text(0)),
           write_line("id2", CatAll(<<Text(3), pt_label, Text(1)>>)),
           write_line("id3", Text(0)),
           write_line("id4", Text(4)),
           write_line("id5", Text(4)),
           write_line("record6",
                      CatAll(<<Text(31), channel_field, Decimal(0), zero_field,
                               none_field, flag_field>>)),
           write_line("record7",
                      CatAll(<<Pad(Decimal(ord_data_type), 10),
                               Pad(Decimal(args.num_pts), 10),
                               Pad(Decimal(1), 10), Text(2),
                               ScientificField(FiniteValue(FALSE, 0, 0), 11, 5),
                               Text(2),
                               ScientificField(args.abscissa_inc, 11, 5),
                               Text(2),
                               ScientificField(FiniteValue(FALSE, 0, 0), 11, 5)>>)),
           write_line("record8",
                      Characteristics(17, NameField(Text(4)),
                                      UnitsField(truncate_to_width(Ascii(1), 46),
                                                 48))),
           write_line("record9",
                      Characteristics(8, NameField(channel_label),
                                      UnitsField(truncate_to_width(args.units, 33),
                                                 35))),
           write_line("record10", none_record),
           write_line("record11", none_record) >>

Times(text, k) == [chars |-> text.chars * k, bytes |-> text.bytes * k]

\* for chunk in data.time_series.chunks(4): the full lines of four values
\* and the last, shorter line (every sample is args.sample).
DataLines(args) ==
    LET field == ScientificField(args.sample, 20, 11)
        full == args.num_pts \div 4
        rest == args.num_pts % 4
    IN  (IF full > 0
           THEN <<[write_line("data", Times(field, 4)) EXCEPT !.count = full]>>
           ELSE <<>>)
        \o (IF rest > 0 THEN <<write_line("data", Times(field, rest))>>
            ELSE <<>>)

\* write_uff58_impl, every write succeeding.
write_uff58_ascii(args) ==
    [status |-> "ok",
     records |-> <<write_line("separator", Text(6)), write_line("type", Text(6))>>
                    \o CommonRecords(args, 4)
                    \o DataLines(args)
                    \o <<write_line("end", Text(6))>>,
     n_ascii_lines |-> 0,
     n_bytes |-> 0]

\* (num_pts as i32) * 4 without overflow checks: the low 32 bits of the
\* product as a signed integer, for 0 <= num_pts <= I32_MAX.
WrappingTimes4(num_pts) ==
    LET two30 == I32_MAX \div 2 + 1
        low == num_pts % two30
    IN  IF low < two30 \div 2 THEN 4 * low ELSE 4 * (low - two30)

\* Whether (num_pts as i32) * 4 overflows i32.
Times4Overflows(num_pts) == num_pts > I32_MAX \div 4

\* write_uff58b, every write succeeding.  With overflow checks (a debug
\* build) the multiplication panics on overflow, after the separator line.
write_uff58b(args) ==
    LET n_ascii_lines == 11
        n_bytes == WrappingTimes4(args.num_pts)
        header_line ==
            CatAll(<<Text(7), Pad(Decimal(1), 6), Pad(Decimal(2), 6),
                     Pad(Decimal(n_ascii_lines), 12), Pad(Decimal(n_bytes), 12),
                     Pad(Decimal(0), 6), Pad(Decimal(0), 6),
                     Pad(Decimal(0), 12), Pad(Decimal(0), 12)>>)
        payload == [kind |-> "payload", name |-> "record12", text_chars |-> 0,
                    text_bytes |-> 0, chars |-> 0, bytes |-> 4,
                    count |-> args.num_pts]
    IN  IF args.overflow_checks /\ Times4Overflows(args.num_pts)
          THEN [status |-> "panic",
                records |-> <<write_line("separator", Text(6))>>,
                n_ascii_lines |-> 0, n_bytes |-> 0]
          ELSE [status |-> "ok",
                records |-> <<write_line("separator", Text(6)),
                              write_line("type", header_line)>>
                               \o CommonRecords(args, 2)
                               \o <<payload, write_line("end", Text(6))>>,
                n_ascii_lines |-> n_ascii_lines,
                n_bytes |-> n_bytes]

write_uff58_with_format(args) ==
    IF args.fmt = "Ascii" THEN write_uff58_ascii(args) ELSE write_uff58b(args)

\* The track labels and unit strings: ASCII or two bytes a character,
\* shorter and longer than the widths 19, 64 and 33 they are cut to.
LabelSet == {[chars |-> n, bytes_per_char |-> b] : n \in {1, 20, 65}, b \in {1, 2}}

UnitSet == {[chars |-> n, bytes_per_char |-> b] : n \in {1, 34}, b \in {1, 2}}

\* 1.0 / sample_rate: 1e-3, a negative rate, a rate of 1e100, a rate of 0.
IncrementSet ==
    {FiniteValue(FALSE, 1, -3), FiniteValue(TRUE, 1, -3),
     FiniteValue(FALSE, 1, -100),
     [kind |-> "inf", neg |-> FALSE, lead |-> 0, exp |-> 0]}

\* time_series.len(): few samples, and the counts around I32_MAX / 4.
SampleCountSet == {0, 1, 4, 5, I32_MAX \div 4, I32_MAX \div 4 + 1}

\* The calls: the samples' values show in the ASCII layout only, the
\* build's overflow checks in write_uff58b only.
CodecArgsSet ==
    [called : {TRUE}, fmt : {"Ascii"}, track_name : LabelSet,
     units : UnitSet, abscissa_inc : IncrementSet, num_pts : SampleCountSet,
     sample : {FiniteValue(FALSE, 1, 0), FiniteValue(TRUE, 1, -38)},
     overflow_checks : {FALSE}]
      \cup
    [called : {TRUE}, fmt : {"Binary58b"}, track_name : LabelSet,
     units : UnitSet, abscissa_inc : IncrementSet, num_pts : SampleCountSet,
     sample : {FiniteValue(FALSE, 1, 0)},
     overflow_checks : BOOLEAN]

\* One call of write_uff58_with_format that the writer W never fails.
WriteUff58 ==
    /\ ~codec_args.called
    /\ \E args \in CodecArgsSet :
         /\ codec_args' = args
         /\ codec_out' = write_uff58_with_format(args)
    /\ UNCHANGED nonUffVars
    /\ UNCHANGED <<uff_path, uff_calls, sci_args, sci_field>>

\* A write of W returns Err after `done` records: the call returns it.
WriteUff58IoError ==
    /\ ~codec_args.called
    /\ \E args \in CodecArgsSet :
         LET whole == write_uff58_with_format(args)
         IN  \E done \in 0..(Len(whole.records) - 1) :
                /\ codec_args' = args
                /\ codec_out' = [whole EXCEPT !.status = "io_err",
                                              !.records = SubSeq(@, 1, done)]
    /\ UNCHANGED nonUffVars
    /\ UNCHANGED <<uff_path, uff_calls, sci_args, sci_field>>

NextCodec ==
    \/ WriteUff58
    \/ WriteUff58IoError

SpecCodec == Init /\ [][NextCodec]_vars

(***************************************************************************)
(* C17 as stated: every text record written by write_uff58_ascii and       *)
(* write_uff58b is exactly 80 characters (followed by the newline), for    *)
(* every track label, unit string, sample rate and sample count.           *)
(***************************************************************************)
TextRecords ==
    {k \in 1..Len(codec_out.records) : codec_out.records[k].kind = "text"}

C17_RecordsAre80 ==
    codec_args.called =>
        \A k \in TextRecords : codec_out.records[k].chars = 80

(***************************************************************************)
(* C17 amended: a text record is never shorter than 80 bytes and is never  *)
(* cut: a text under 80 bytes is padded with spaces to exactly 80 bytes, a *)
(* longer one is written as it is.  Record 8 is always 93 characters; when *)
(* the track label and the unit string are ASCII every other text record   *)
(* is exactly 80 characters, for every sample rate and sample count.       *)
(***************************************************************************)
AsciiArgs ==
    /\ codec_args.track_name.bytes_per_char = 1
    /\ codec_args.units.bytes_per_char = 1

C17_RecordsAtLeast80 ==
    codec_args.called =>
        \A k \in TextRecords :
            LET rec == codec_out.records[k]
            IN  /\ rec.bytes >= 80
                /\ rec.text_bytes < 80 => rec.bytes = 80
                /\ rec.text_bytes >= 80 =>
                       (rec.bytes = rec.text_bytes /\ rec.chars = rec.text_chars)
                /\ rec.bytes - rec.chars = rec.text_bytes - rec.text_chars
                /\ rec.name = "record8" => rec.chars = 93
                /\ (AsciiArgs /\ rec.name # "record8") =>
                       (rec.chars = 80 /\ rec.bytes = 80)
                /\ rec.name \notin {"id2", "record6", "record8", "record9"} =>
                       rec.chars = 80

\* A whole ASCII block for an ASCII label of 20 characters and 5 samples:
\* 16 lines, record 8 of 93 characters and the rest of 80.
C17_Witness ==
    /\ codec_args.called
    /\ codec_args.fmt = "Ascii"
    /\ codec_out.status = "ok"
    /\ AsciiArgs
    /\ codec_args.track_name.chars = 20
    /\ codec_args.num_pts = 5
    /\ Len(codec_out.records) = 16
    /\ codec_out.records[10].name = "record8"
    /\ codec_out.records[10].chars = 93
    /\ \A k \in 1..16 : k # 10 => codec_out.records[k].chars = 80

(***************************************************************************)
(* C20 as stated: for every sample count, those for which 4 x count does   *)
(* not fit in an i32 included, write_uff58b declares in its type line the  *)
(* number of payload bytes it writes, 4 x sample count; and the declared   *)
(* number of ASCII lines, 11, is the number of text records between the    *)
(* type line and the payload.                                              *)
(***************************************************************************)
\* The position of the record called name.
RecordAt(name) ==
    CHOOSE k \in 1..Len(codec_out.records) : codec_out.records[k].name = name

C20_DeclaredPayloadAndLines ==
    (codec_args.called /\ codec_args.fmt = "Binary58b"
        /\ codec_out.status # "io_err") =>
        /\ codec_out.status = "ok"
        /\ codec_out.records[RecordAt("record12")].count = codec_args.num_pts
        /\ codec_out.records[RecordAt("record12")].bytes = 4
        /\ codec_out.n_bytes >= 0
        /\ codec_out.n_bytes % 4 = 0
        /\ codec_out.n_bytes \div 4 = codec_args.num_pts
        /\ codec_out.n_ascii_lines = 11
        /\ codec_out.n_ascii_lines =
               Cardinality({k \in TextRecords :
                                /\ k > RecordAt("type")
                                /\ k < RecordAt("record12")})

(***************************************************************************)
(* C27: with a filter, each entry of the track-name list is used by at     *)
(* most one request: the plan never holds a channel index twice, and the   *)
(* request that is the (r+1)-th one for its name selects the (r+1)-th      *)
(* entry carrying that name, in track-list order; a request beyond the     *)
(* entries carrying its name gives a warning and no plan entry.            *)
(***************************************************************************)
\* The 0-based index of the entry of the track-name list that carries name
\* and has exactly r entries with that name before it.
NthEntry(name, r) ==
    CHOOSE idx \in 0..(Len(track_names) - 1) :
        /\ track_names[idx + 1] = name
        /\ Occurrences(SubSeq(track_names, 1, idx), name) = r

C27_EntryUsedOnce ==
    (PlanBuilt /\ track_list_filter.some) =>
        LET f == track_list_filter.names
        IN  /\ \A i, j \in 1..Len(channel_plan) :
                  i # j => channel_plan[i][2] # channel_plan[j][2]
            /\ \A i \in 1..Len(channel_plan) :
                  LET p == channel_plan[i][1]
                      r == Occurrences(SubSeq(f, 1, p), f[p + 1])
                  IN  /\ r < Occurrences(track_names, f[p + 1])
                      /\ channel_plan[i][2] = NthEntry(f[p + 1], r)
            /\ \A name \in Names :
                  LET k == Occurrences(f, name)
                      m == Occurrences(track_names, name)
                  IN  /\ Cardinality({i \in 1..Len(channel_plan) :
                                          f[channel_plan[i][1] + 1] = name})
                             = (IF k < m THEN k ELSE m)
                      /\ Occurrences(warnings, NotFoundWarning(name))
                             = (IF k > m THEN k - m ELSE 0)

\* Two requests for 'a' on the list a, a: the first takes entry 0, the
\* second entry 1.
C27_Witness ==
    /\ PlanBuilt
    /\ track_list_filter.some
    /\ track_list_filter.names = <<"a", "a">>
    /\ track_names = <<"a", "a">>
    /\ channel_plan = <<<<0, 0>>, <<1, 1>>>>

(***************************************************************************)
(* C29: the progress callback is invoked in a fixed protocol.  The events  *)
(* so far are always a prefix of: Started, then Advanced with completed =  *)
(* 1, 2, .., total and the same total (the number of planned, extracted    *)
(* channels), then Finished.  Started is emitted when the plan is built,   *)
(* before any extraction; there is one Advanced for each block in the      *)
(* output; Finished is emitted exactly when the call succeeds, last.       *)
(***************************************************************************)
EventsOf(ev) == {k \in 1..Len(events) : events[k].ev = ev}

C29_ProgressProtocol ==
    /\ Cardinality(EventsOf("Started")) = (IF PlanBuilt THEN 1 ELSE 0)
    /\ events # <<>> =>
          /\ events[1] = ProgressEvent("Started", Len(track_names),
                                       Len(channel_plan), "")
    /\ Cardinality(EventsOf("Advanced")) = (IF Opened THEN Len(out.blocks) ELSE 0)
    /\ \A k \in EventsOf("Advanced") :
          /\ events[k].a = k - 1
          /\ events[k].b = Len(channel_plan)
          /\ events[k].b = Len(processed_channels)
          /\ events[k].a <= events[k].b
          /\ events[k].name = out.blocks[k - 1].name
    /\ Cardinality(EventsOf("Finished")) = (IF result = "ok" THEN 1 ELSE 0)
    /\ result = "ok" =>
          /\ events[Len(events)].ev = "Finished"
          /\ Len(events) = Len(channel_plan) + 2
    /\ (pc = "done" /\ result # "ok") => EventsOf("Finished") = {}

\* A successful call on two channels: Started, Advanced 1/2, Advanced 2/2,
\* Finished.
C29_Witness ==
    /\ result = "ok"
    /\ Len(events) = 4
    /\ events[2].ev = "Advanced" /\ events[2].a = 1 /\ events[2].b = 2
    /\ events[3].ev = "Advanced" /\ events[3].a = 2 /\ events[3].b = 2
    /\ events[4].ev = "Finished"

(***************************************************************************)
(* C30: on every successful call report.channel_count is the length of     *)
(* processed_track_names and the number of blocks written to the output;   *)
(* track_name_count is the number of parsed track names; and with a filter *)
(* of length F, channel_count plus the number of 'was not found' warnings  *)
(* is F.                                                                   *)
(***************************************************************************)
NotFoundCount ==
    Cardinality({k \in 1..Len(report.warnings) :
                     report.warnings[k].kind = "not_found"})

C30_ReportCounts ==
    result = "ok" =>
        /\ report.channel_count = Len(report.processed_track_names)
        /\ report.channel_count = Len(out.blocks)
        /\ report.track_name_count = Len(track_names)
        /\ track_list_filter.some =>
              report.channel_count + NotFoundCount
                  = Len(track_list_filter.names)

\* A filter of two names of which one is found: 1 block + 1 warning = 2,
\* in a directory of two channels.
C30_Witness ==
    /\ result = "ok"
    /\ track_list_filter.some
    /\ Len(track_list_filter.names) = 2
    /\ channel_count(reader) = 2
    /\ report.channel_count = 1
    /\ NotFoundCount = 1
    /\ Len(out.blocks) = 1

(***************************************************************************)
(* C28: the command-line pipeline always terminates: whatever the          *)
(* interleaving of the jobs and the writer, a full channel and a writer    *)
(* that returned early included, eventually no job is blocked in send,     *)
(* the scope has completed and main's join of the writer has returned.     *)
(***************************************************************************)
CliTerminated ==
    /\ cli_pc = "done"
    /\ Blocked = {}
    /\ \A i \in DOMAIN job : job[i] = "done"
    /\ writer_pc \in {"idle", "done"}

C28_CliTerminates == <>[]CliTerminated

\* The end of a run of five channels whose writer returned a write error
\* while jobs were still to send.
C28_Witness ==
    /\ CliTerminated
    /\ cli_channels = 5
    /\ writer_result = "err_write"
    /\ next_index = 0
    /\ cli_result = "err"

(***************************************************************************)
(* 12. read_dts_xml (dts.rs): the bytes of the metadata file to a String.  *)
(* A file is the sequence of its bytes, a String the sequence of its code  *)
(* points.                                                                 *)
(***************************************************************************)
MaxTextLen == 2       \* characters of the metadata text

\* The characters of the text: '<', U+00E9, U+4E2D and U+1F600 (one, two,
\* three and four bytes of UTF-8; one or two units of UTF-16).
XmlChars == {60, 233, 20013, 128512}

XmlEncodings == {"utf-8", "utf-16le", "utf-16be"}

\* The bytes a producer writes for one character, and for the mark.
Utf8Of(cp) ==
    IF cp < 128 THEN <<cp>>
    ELSE IF cp < 2048 THEN <<192 + cp \div 64, 128 + (cp % 64)>>
    ELSE IF cp < 65536
      THEN <<224 + cp \div 4096, 128 + ((cp \div 64) % 64), 128 + (cp % 64)>>
    ELSE <<240 + cp \div 262144, 128 + ((cp \div 4096) % 64),
           128 + ((cp \div 64) % 64), 128 + (cp % 64)>>

UnitBytes(u, le) ==
    IF le THEN <<u % 256, u \div 256>> ELSE <<u \div 256, u % 256>>

Utf16Of(cp, le) ==
    IF cp < 65536 THEN UnitBytes(cp, le)
    ELSE UnitBytes(55296 + (cp - 65536) \div 1024, le)
             \o UnitBytes(56320 + ((cp - 65536) % 1024), le)

BomOf(encoding) ==
    CASE encoding = "utf-8" -> <<239, 187, 191>>
      [] encoding = "utf-16le" -> <<255, 254>>
      [] encoding = "utf-16be" -> <<254, 255>>

RECURSIVE EncodeText(_, _)
EncodeText(text, encoding) ==
    IF text = <<>> THEN <<>>
    ELSE (IF encoding = "utf-8" THEN Utf8Of(Head(text))
          ELSE Utf16Of(Head(text), encoding = "utf-16le"))
             \o EncodeText(Tail(text), encoding)

\* The file: a text in one of the encodings, with or without the mark,
\* whole or with its last byte missing.
FileBytes(text, encoding, bom, cut) ==
    LET whole == (IF bom THEN BomOf(encoding) ELSE <<>>)
                     \o EncodeText(text, encoding)
    IN  IF cut /\ whole # <<>> THEN SubSeq(whole, 1, Len(whole) - 1)
        ELSE whole

XmlArgsSet ==
    {[called |-> TRUE, text |-> t, encoding |-> e, bom |-> b, cut |-> c,
      bytes |-> FileBytes(t, e, b, c)] :
         t \in SeqsUpTo(XmlChars, MaxTextLen), e \in XmlEncodings,
         b \in BOOLEAN, c \in BOOLEAN}

XmlErr == [ok |-> FALSE, text |-> <<>>]

\* Encoding::for_bom: the encoding a leading byte-order mark names and the
\* mark's length.
for_bom(bytes) ==
    IF Len(bytes) >= 3 /\ SubSeq(bytes, 1, 3) = <<239, 187, 191>>
      THEN [some |-> TRUE, encoding |-> "utf-8", bom_len |-> 3]
    ELSE IF Len(bytes) >= 2 /\ SubSeq(bytes, 1, 2) = <<255, 254>>
      THEN [some |-> TRUE, encoding |-> "utf-16le", bom_len |-> 2]
    ELSE IF Len(bytes) >= 2 /\ SubSeq(bytes, 1, 2) = <<254, 255>>
      THEN [some |-> TRUE, encoding |-> "utf-16be", bom_len |-> 2]
    ELSE [some |-> FALSE, encoding |-> "none", bom_len |-> 0]

\* UTF-8 decoding: ok is FALSE at the first malformed sequence (a stray or
\* missing continuation byte, an overlong form, a surrogate, a value past
\* U+10FFFF).
RECURSIVE Utf8Decode(_, _, _)
Utf8Decode(b, i, acc) ==
    IF i > Len(b) THEN [ok |-> TRUE, text |-> acc]
    ELSE
      LET b0 == b[i]
          Cont(k) == i + k <= Len(b) /\ b[i + k] \in 128..191
          c(k) == b[i + k] - 128
          cp2 == (b0 - 192) * 64 + c(1)
          cp3 == (b0 - 224) * 4096 + c(1) * 64 + c(2)
          cp4 == (b0 - 240) * 262144 + c(1) * 4096 + c(2) * 64 + c(3)
      IN  IF b0 < 128 THEN Utf8Decode(b, i + 1, Append(acc, b0))
          ELSE IF b0 \in 194..223 /\ Cont(1)
            THEN Utf8Decode(b, i + 2, Append(acc, cp2))
          ELSE IF /\ b0 \in 224..239 /\ Cont(1) /\ Cont(2)
                  /\ cp3 >= 2048 /\ cp3 \notin 55296..57343
            THEN Utf8Decode(b, i + 3, Append(acc, cp3))
          ELSE IF /\ b0 \in 240..244 /\ Cont(1) /\ Cont(2) /\ Cont(3)
                  /\ cp4 \in 65536..1114111
            THEN Utf8Decode(b, i + 4, Append(acc, cp4))
          ELSE [ok |-> FALSE, text |-> acc]

\* UTF-16 decoding: ok is FALSE at an odd trailing byte or an unpaired
\* surrogate.
RECURSIVE Utf16Decode(_, _, _, _)
Utf16Decode(b, le, i, acc) ==
    IF i > Len(b) THEN [ok |-> TRUE, text |-> acc]
    ELSE IF i + 1 > Len(b) THEN [ok |-> FALSE, text |-> acc]
    ELSE
      LET Unit(j) == IF le THEN b[j] + 256 * b[j + 1]
                     ELSE 256 * b[j] + b[j + 1]
          u1 == Unit(i)
      IN  IF u1 \notin 55296..57343
            THEN Utf16Decode(b, le, i + 2, Append(acc, u1))
          ELSE IF /\ u1 \in 55296..56319 /\ i + 3 <= Len(b)
                  /\ Unit(i + 2) \in 56320..57343
            THEN Utf16Decode(b, le, i + 4,
                     Append(acc, 65536 + (u1 - 55296) * 1024
                                       + (Unit(i + 2) - 56320)))
          ELSE [ok |-> FALSE, text |-> acc]

\* Encoding::decode_without_bom_handling: (decoded, had_errors) as
\* [text, ok = ~had_errors].
decode_without_bom_handling(encoding, bytes) ==
    IF encoding = "utf-8" THEN Utf8Decode(bytes, 1, <<>>)
    ELSE Utf16Decode(bytes, encoding = "utf-16le", 1, <<>>)

\* std::str::from_utf8
from_utf8(bytes) == Utf8Decode(bytes, 1, <<>>)

\* dts.rs 383-392: the encoding guessed for a file without a mark that is
\* not UTF-8.
GuessedEncoding(bytes) ==
    LET looks_utf16le == Len(bytes) > 1 /\ bytes[2] = 0
        looks_utf16be == Len(bytes) > 1 /\ bytes[1] = 0
    IN  IF looks_utf16le THEN "utf-16le"
        ELSE IF looks_utf16be THEN "utf-16be"
        ELSE "none"

read_dts_xml(bytes) ==
    IF bytes = <<>> THEN [ok |-> TRUE, text |-> <<>>]
    ELSE IF for_bom(bytes).some
      THEN LET d == decode_without_bom_handling(
                        for_bom(bytes).encoding,
                        SubSeq(bytes, for_bom(bytes).bom_len + 1, Len(bytes)))
           IN  IF ~d.ok THEN XmlErr ELSE d
    ELSE IF from_utf8(bytes).ok THEN from_utf8(bytes)
    ELSE IF GuessedEncoding(bytes) # "none"
            /\ decode_without_bom_handling(GuessedEncoding(bytes), bytes).ok
      THEN decode_without_bom_handling(GuessedEncoding(bytes), bytes)
    ELSE XmlErr

\* One call of read_dts_xml on a metadata file.
ReadDtsXml ==
    /\ ~xml_args.called
    /\ \E a \in XmlArgsSet :
          /\ xml_args' = a
          /\ xml_out' = read_dts_xml(a.bytes)
    /\ UNCHANGED <<nonDtsVars, calibVars, readerVars>>

NextXml == ReadDtsXml

SpecXml == Init /\ [][NextXml]_vars

\* C22: read_dts_xml returns the text the file encodes, for a whole file in
\* UTF-8, UTF-16LE or UTF-16BE, with or without a byte-order mark; so a
\* UTF-16 file without the mark decodes to the string its form with the
\* mark decodes to.
C22_DecodesEveryEncoding ==
    (xml_args.called /\ ~xml_args.cut)
        => (xml_out.ok /\ xml_out.text = xml_args.text)

(***************************************************************************)
(* 13. read_track's scaling and offset (dts.rs 172-207).  An f64 is NaN or *)
(* a number; the numbers of the inputs are chosen so that every quotient   *)
(* of the computation is exact.                                            *)
(***************************************************************************)
NaN == [nan |-> TRUE, v |-> 0]

F(x) == [nan |-> FALSE, v |-> x]

FNeg(a) == IF a.nan THEN NaN ELSE F(0 - a.v)

FMul(a, b) == IF a.nan \/ b.nan THEN NaN ELSE F(a.v * b.v)

FDiv(a, b) == IF a.nan \/ b.nan THEN NaN ELSE F(a.v \div b.v)

FAdd(a, b) == IF a.nan \/ b.nan THEN NaN ELSE F(a.v + b.v)

\* The AnalogInputChannel entries read_track meets: every combination of
\* the flags and the zero method, each voltage absent or present.
XmlMetaSet ==
    [proportional_to_excitation : BOOLEAN,
     is_inverted : BOOLEAN,
     measured_excitation_voltage : {NaN, F(2)},
     factory_excitation_voltage : {NaN, F(4)},
     initial_eu : {F(0), F(5)},
     zero_method : {"UsePreCalZero", "AverageOverTime", "None"}]

\* The ChnHeader fields the calibration uses.
ChnHeaderSet ==
    {[pre_test_zero_level_adc |-> 1, data_zero_level_adc |-> 3,
      scale_factor_mv |-> F(16), scale_factor_eu |-> F(2)]}

AdcValues == {-1, 2}

\* dts.rs 173-176
scale_factor_mv(xml_meta, chn_header) ==
    IF xml_meta.is_inverted THEN FNeg(chn_header.scale_factor_mv)
    ELSE chn_header.scale_factor_mv

\* Variant: the measured voltage whenever the channel is proportional.
excitation_MeasuredFirst(xml_meta) ==
    IF ~xml_meta.proportional_to_excitation THEN F(1)
    ELSE IF ~xml_meta.measured_excitation_voltage.nan
      THEN xml_meta.measured_excitation_voltage
    ELSE xml_meta.factory_excitation_voltage

\* dts.rs 178-184
excitation(xml_meta) ==
    IF ~xml_meta.proportional_to_excitation THEN F(1)
    ELSE IF xml_meta.factory_excitation_voltage.nan
      THEN xml_meta.measured_excitation_voltage
    ELSE xml_meta.factory_excitation_voltage

\* dts.rs 188-191 and 194-197: the offset from one zero level.
OffsetFrom(level, xml_meta, chn_header) ==
    FAdd(FDiv(FDiv(FMul(FNeg(F(level)),
                        scale_factor_mv(xml_meta, chn_header)),
                   chn_header.scale_factor_eu),
              excitation(xml_meta)),
         xml_meta.initial_eu)

\* dts.rs 186-200
offset(xml_meta, chn_header) ==
    CASE xml_meta.zero_method = "UsePreCalZero" ->
           OffsetFrom(chn_header.pre_test_zero_level_adc, xml_meta, chn_header)
      [] xml_meta.zero_method = "AverageOverTime" ->
           OffsetFrom(chn_header.data_zero_level_adc, xml_meta, chn_header)
      [] xml_meta.zero_method = "None" -> xml_meta.initial_eu

\* dts.rs 202
scale(xml_meta, chn_header) ==
    FDiv(FDiv(scale_factor_mv(xml_meta, chn_header),
              chn_header.scale_factor_eu),
         excitation(xml_meta))

\* dts.rs 204-207: one calibrated sample.
CalibratedSample(adc_val, xml_meta, chn_header) ==
    FAdd(FMul(F(adc_val), scale(xml_meta, chn_header)),
         offset(xml_meta, chn_header))

\* read_track's computation on one channel and one raw sample.
Calibrate ==
    /\ ~calib_args.called
    /\ \E m \in XmlMetaSet, h \in ChnHeaderSet, a \in AdcValues :
          /\ calib_args' = [called |-> TRUE, xml_meta |-> m,
                            chn_header |-> h, adc_val |-> a]
          /\ calib_out' = [called |-> TRUE,
                           excitation |-> excitation(m),
                           offset |-> offset(m, h),
                           scale |-> scale(m, h),
                           sample |-> CalibratedSample(a, m, h)]
    /\ UNCHANGED <<nonDtsVars, xmlVars, readerVars>>

NextCalib == Calibrate

SpecCalib == Init /\ [][NextCalib]_vars

\* C24: the excitation divisor is 1.0 for a channel not proportional to
\* excitation, the measured voltage for a proportional channel whose
\* factory voltage is NaN, and the factory voltage otherwise; the offset is
\* computed from pre_test_zero_level_adc for UsePreCalZero, from
\* data_zero_level_adc for AverageOverTime, and is initial_eu for None.
C24_Divisor(m) ==
    IF ~m.proportional_to_excitation THEN 1
    ELSE IF m.factory_excitation_voltage.nan
      THEN m.measured_excitation_voltage.v
    ELSE m.factory_excitation_voltage.v

C24_DivisorIsNaN(m) ==
    /\ m.proportional_to_excitation
    /\ m.factory_excitation_voltage.nan
    /\ m.measured_excitation_voltage.nan

C24_ZeroLevel(m, h) ==
    IF m.zero_method = "UsePreCalZero" THEN h.pre_test_zero_level_adc
    ELSE h.data_zero_level_adc

C24_ExcitationAndZeroLevel ==
    calib_args.called =>
      LET m == calib_args.xml_meta
          h == calib_args.chn_header
          sign == IF m.is_inverted THEN -1 ELSE 1
      IN  /\ calib_out.excitation.nan = C24_DivisorIsNaN(m)
          /\ ~C24_DivisorIsNaN(m) =>
               calib_out.excitation.v = C24_Divisor(m)
          /\ m.zero_method = "None" => calib_out.offset = m.initial_eu
          /\ (m.zero_method # "None" /\ ~C24_DivisorIsNaN(m)) =>
               /\ ~calib_out.offset.nan
               /\ (calib_out.offset.v - m.initial_eu.v) * C24_Divisor(m)
                      * h.scale_factor_eu.v
                    = (0 - C24_ZeroLevel(m, h)) * sign * h.scale_factor_mv.v
          /\ (m.zero_method # "None" /\ C24_DivisorIsNaN(m)) =>
               calib_out.offset.nan

\* A proportional channel without a factory voltage, calibrated from the
\* running-average zero level: 16 mV / 2 / 2 V = 4 per count, level 3.
C24_Witness ==
    /\ calib_args.called
    /\ calib_args.xml_meta.proportional_to_excitation
    /\ calib_args.xml_meta.factory_excitation_voltage.nan
    /\ ~calib_args.xml_meta.measured_excitation_voltage.nan
    /\ ~calib_args.xml_meta.is_inverted
    /\ calib_args.xml_meta.zero_method = "AverageOverTime"
    /\ calib_args.xml_meta.initial_eu = F(5)
    /\ calib_out.excitation = F(2)
    /\ calib_out.offset = F(-7)

(***************************************************************************)
(* 14. DtsReader::new on a directory whose XML document and channel files  *)
(* are given in full, and the reader's queries (dts.rs).                   *)
(***************************************************************************)
MaxEvents == 5        \* start, end and empty tags of the XML document
MaxSampleReads == 1   \* read_track calls on one reader

\* The elements of the document, at position p of its tag sequence.  The
\* attributes that identify a channel carry p, so that no two channel
\* elements are alike.
ModuleStart(p) == [tag |-> "Module", StartRecordSampleNumber |-> p]

ModuleEnd == [tag |-> "/Module"]

ChannelElement(p, order, named) ==
    [tag |-> "AnalogInputChanel",
     AbsoluteDisplayOrder |-> order,
     Eu |-> <<"eu", p>>,
     Description |-> <<"description", p>>,
     SerialNumber |-> <<"serial", p>>,
     Sensitivity |-> 100 + p,
     Name |-> IF named THEN [some |-> TRUE, v |-> <<"name", p>>]
              ELSE [some |-> FALSE, v |-> <<>>]]

\* The tags of a document: a Module start or end, or a channel element
\* whose AbsoluteDisplayOrder is "-1", "1" or "2".
ShapeKinds == {"M", "E", "C-", "C1", "C2"}

ChannelKinds == {"C-", "C1", "C2"}

RECURSIVE Depths(_, _, _)
Depths(shape, i, depth) ==
    IF i > Len(shape) THEN {depth}
    ELSE {depth} \cup
         Depths(shape, i + 1,
                CASE shape[i] = "M" -> depth + 1
                  [] shape[i] = "E" -> depth - 1
                  [] OTHER -> depth)

\* Every end tag closes a start tag and every start tag is closed.
WellFormed(shape) ==
    /\ \A d \in Depths(shape, 1, 0) : d >= 0
    /\ Cardinality({i \in 1..Len(shape) : shape[i] = "M"})
         = Cardinality({i \in 1..Len(shape) : shape[i] = "E"})

Doc(shape, named) ==
    [p \in 1..Len(shape) |->
        CASE shape[p] = "M" -> ModuleStart(p)
          [] shape[p] = "E" -> ModuleEnd
          [] shape[p] = "C-" -> ChannelElement(p, -1, p \in named)
          [] shape[p] = "C1" -> ChannelElement(p, 1, p \in named)
          [] shape[p] = "C2" -> ChannelElement(p, 2, p \in named)]

NumChannelTags(shape) ==
    Cardinality({i \in 1..Len(shape) : shape[i] \in ChannelKinds})

\* A channel file cut to len bytes.
CutTo(f, len) == [f EXCEPT !.len = len, !.avail = 0]

GoodChnFile == ChnFile(MagicKey, 0, 1, 1)

\* Channel files: complete with no trigger and with one, with another
\* magic key, one byte short of the header with no trigger and with one
\* trigger, and shorter than the magic key.
ChnFileKinds ==
    {GoodChnFile,
     ChnFile(MagicKey, 1, 1, 1),
     ChnFile(0, 1, 1, 1),
     CutTo(ChnFile(MagicKey, 0, 1, 1), HeaderEnd(0) - 1),
     CutTo(ChnFile(MagicKey, 1, 1, 1), HeaderEnd(1) - 1),
     CutTo(ChnFile(0, 0, 1, 1), 3)}

DtsDir(xml_ok, xml, chn) ==
    [called |-> TRUE, xml_ok |-> xml_ok, xml |-> xml, chn |-> chn]

\* Directories whose document nests channels in modules in every way, with
\* a complete file for each channel.
StructureDirs ==
    {DtsDir(TRUE, Doc(s, {}), [i \in 1..NumChannelTags(s) |-> GoodChnFile]) :
        s \in {t \in SeqsUpTo(ShapeKinds, MaxEvents) : WellFormed(t)}}

\* Directories with every list of channel files, beside a flat document.
FileDirs ==
    {DtsDir(TRUE, Doc([i \in 1..m |-> "C1"], {}), fs) :
        m \in 0..MaxChannels, fs \in SeqsUpTo(ChnFileKinds, MaxChannels)}

\* Directories whose channels carry a Name attribute or not.
NameDirs ==
    UNION {{DtsDir(TRUE, Doc(s, nm), [i \in 1..Len(s) |-> GoodChnFile]) :
               nm \in SUBSET (1..Len(s))} :
           s \in SeqsUpTo({"C-", "C1"}, MaxChannels)}

\* The directories DtsReader::new is called on; in the last the document
\* cannot be read or parsed.
DtsDirSet ==
    StructureDirs \cup FileDirs \cup NameDirs
        \cup {DtsDir(FALSE, <<>>, <<GoodChnFile>>)}

\* dts.rs 340: value.parse::<u32>().unwrap_or(0), on attribute values
\* below 2^32.
ParseU32(value) == IF value >= 0 THEN value ELSE 0

\* The identity attributes the spec's ChannelMetadata keeps beside those of
\* AnalogInputChannel.
ChannelLabels(event) ==
    [name |-> event.Name, description |-> event.Description,
     serial_number |-> event.SerialNumber,
     sensitivity |-> event.Sensitivity]

\* collect_channel: the entry pushed for one channel element.
collect_channel(event, start_sample) ==
    [display_order |-> ParseU32(event.AbsoluteDisplayOrder),
     eu |-> event.Eu,
     start_sample |-> start_sample,
     labels |-> ChannelLabels(event)]

\* dts.rs 246-286: the event loop, from event i on.
RECURSIVE ParseEvents(_, _, _, _)
ParseEvents(xml, i, module_stack, channels) ==
    IF i > Len(xml) THEN channels
    ELSE IF xml[i].tag = "Module"
      THEN ParseEvents(xml, i + 1,
                       Append(module_stack, xml[i].StartRecordSampleNumber),
                       channels)
    ELSE IF xml[i].tag = "AnalogInputChanel"
      THEN ParseEvents(xml, i + 1, module_stack,
                       Append(channels,
                              collect_channel(
                                  xml[i],
                                  IF module_stack = <<>> THEN 0
                                  ELSE module_stack[Len(module_stack)])))
    ELSE ParseEvents(xml, i + 1,
                     IF module_stack = <<>> THEN <<>>
                     ELSE SubSeq(module_stack, 1, Len(module_stack) - 1),
                     channels)

parse_dts_metadata(xml) == ParseEvents(xml, 1, <<>>, <<>>)

\* Insertion of x into a list sorted by key, behind every entry whose key is
\* not larger (the sort is stable).
RECURSIVE InsertByDisplayOrder(_, _)
InsertByDisplayOrder(sorted, x) ==
    IF sorted = <<>> THEN <<x>>
    ELSE IF sorted[Len(sorted)].display_order <= x.display_order
      THEN Append(sorted, x)
    ELSE Append(InsertByDisplayOrder(SubSeq(sorted, 1, Len(sorted) - 1), x),
                sorted[Len(sorted)])

\* Variant: x goes in front of the entries with its own key.
RECURSIVE InsertBeforeEqual(_, _)
InsertBeforeEqual(sorted, x) ==
    IF sorted = <<>> THEN <<x>>
    ELSE IF sorted[Len(sorted)].display_order < x.display_order
      THEN Append(sorted, x)
    ELSE Append(InsertBeforeEqual(SubSeq(sorted, 1, Len(sorted) - 1), x),
                sorted[Len(sorted)])

RECURSIVE sort_by_display_order_Unstable(_)
sort_by_display_order_Unstable(channels) ==
    IF channels = <<>> THEN <<>>
    ELSE InsertBeforeEqual(
             sort_by_display_order_Unstable(
                 SubSeq(channels, 1, Len(channels) - 1)),
             channels[Len(channels)])

\* dts.rs 69: all_channels.sort_by_key(|(ch, _)| ch.display_order)
RECURSIVE sort_by_display_order(_)
sort_by_display_order(channels) ==
    IF channels = <<>> THEN <<>>
    ELSE InsertByDisplayOrder(
             sort_by_display_order(SubSeq(channels, 1, Len(channels) - 1)),
             channels[Len(channels)])

\* DtsReader::new on the directory d: Err, or the reader.
DtsReaderNewXml(d) ==
    LET all_channels == sort_by_display_order(parse_dts_metadata(d.xml))
        hs == [i \in 1..Len(d.chn) |-> read_chn_header(d.chn[i])]
    IN  IF ~d.xml_ok THEN NoReader
        ELSE IF ~CountsAgree(Len(d.chn), Len(all_channels)) THEN NoReader
        ELSE IF \E i \in 1..Len(hs) : ~hs[i].ok THEN NoReader
        ELSE [built        |-> TRUE,
              chn_files    |-> [i \in 1..Len(d.chn) |-> i - 1],
              xml_metadata |-> all_channels,
              chn_headers  |-> hs,
              min_npts     |-> MinNpts(hs)]

\* track_metadata(): one entry per channel, in channel order; the name is
\* the description when the channel has no name.
track_metadata(r) ==
    [i \in 1..Min({Len(r.xml_metadata), Len(r.chn_headers)}) |->
        LET labels == r.xml_metadata[i].labels
        IN  [name |-> IF labels.name.some THEN labels.name.v
                      ELSE labels.description,
             description |-> labels.description,
             sampling_rate |-> r.chn_headers[i].sample_rate,
             sensitivity |-> labels.sensitivity,
             serial_number |-> labels.serial_number,
             eu |-> r.xml_metadata[i].eu]]

\* DtsReader::new(path)
DtsNew ==
    /\ ~dts_dir.called
    /\ \E d \in DtsDirSet :
          /\ dts_dir' = d
          /\ dts_reader' = DtsReaderNewXml(d)
    /\ UNCHANGED <<dts_metadata, sample_reads>>
    /\ UNCHANGED <<nonDtsVars, xmlVars, calibVars>>

\* reader.track_metadata()
DtsTrackMetadata ==
    /\ dts_reader.built
    /\ ~dts_metadata.called
    /\ dts_metadata' = [called |-> TRUE, entries |-> track_metadata(dts_reader)]
    /\ UNCHANGED <<dts_dir, dts_reader, sample_reads>>
    /\ UNCHANGED <<nonDtsVars, xmlVars, calibVars>>

\* reader.read_track(track_index): dts.rs 164-170 reads the channel's
\* samples.
DtsReadTrack ==
    /\ dts_reader.built
    /\ sample_reads < MaxSampleReads
    /\ \E track_index \in 0..(channel_count(dts_reader) - 1) :
          sample_reads' = sample_reads + 1
    /\ UNCHANGED <<dts_dir, dts_reader, dts_metadata>>
    /\ UNCHANGED <<nonDtsVars, xmlVars, calibVars>>

NextDts == DtsNew \/ DtsTrackMetadata \/ DtsReadTrack

SpecDts == Init /\ [][NextDts]_vars

\* The positions of the channel elements in the document, and the position
\* of the element an entry of the reader was made from.
DocChannels ==
    {p \in 1..Len(dts_dir.xml) : dts_dir.xml[p].tag = "AnalogInputChanel"}

DocPosition(entry) ==
    CHOOSE p \in DocChannels : dts_dir.xml[p].Eu = entry.eu

\* The display order of the element at p: its attribute when that is a
\* u32, else 0.
DocDisplayOrder(p) ==
    IF dts_dir.xml[p].AbsoluteDisplayOrder \in 0..2
      THEN dts_dir.xml[p].AbsoluteDisplayOrder
    ELSE 0

\* C21: after DtsReader::new the reader's channels are the document's
\* channel elements, whatever module they are nested in, in ascending
\* display_order: channel i has the i-th smallest display_order, and
\* channels with equal display_order are in document order.
C21_OrderedByDisplayOrder ==
    dts_reader.built =>
      LET md == dts_reader.xml_metadata
      IN  /\ Len(md) = Cardinality(DocChannels)
          /\ \A i \in 1..Len(md) :
                /\ \E p \in DocChannels : dts_dir.xml[p].Eu = md[i].eu
                /\ md[i].display_order = DocDisplayOrder(DocPosition(md[i]))
                /\ Cardinality({p \in DocChannels :
                       \/ DocDisplayOrder(p) < md[i].display_order
                       \/ /\ DocDisplayOrder(p) = md[i].display_order
                          /\ p < DocPosition(md[i])}) = i - 1

\* A channel of order 1, then a module holding two channels without a
\* usable order: the nested two come first, in document order.
C21_Witness ==
    /\ dts_reader.built
    /\ Len(dts_dir.xml) = 5
    /\ dts_dir.xml[2].tag = "Module"
    /\ Len(dts_reader.xml_metadata) = 3
    /\ DocPosition(dts_reader.xml_metadata[1]) = 3
    /\ DocPosition(dts_reader.xml_metadata[2]) = 4
    /\ DocPosition(dts_reader.xml_metadata[3]) = 1
    /\ dts_reader.xml_metadata[1].display_order = 0
    /\ dts_reader.xml_metadata[2].display_order = 0
    /\ dts_reader.xml_metadata[3].display_order = 1
    /\ dts_reader.xml_metadata[1].start_sample = 2
    /\ dts_reader.xml_metadata[3].start_sample = 0

\* A channel file that does not begin with the magic key, or is shorter
\* than the offset 70 + 8 x trigger_count + 20 at which the last header
\* read ends.
C23_BadChnFile(f) ==
    \/ f.len < 4
    \/ f.magic # 741750047
    \/ f.len < 70 + 8 * f.num_triggers + 20

\* C23: DtsReader::new returns no reader when any channel file does not
\* begin with the magic key or is too short for the header; a reader holds
\* a decoded header for every channel file.
C23_ReaderNeedsEveryHeader ==
    dts_dir.called =>
      /\ (\E i \in 1..Len(dts_dir.chn) : C23_BadChnFile(dts_dir.chn[i]))
            => dts_reader = NoReader
      /\ dts_reader.built =>
            /\ Len(dts_reader.chn_headers) = Len(dts_dir.chn)
            /\ \A i \in 1..Len(dts_dir.chn) :
                  /\ dts_reader.chn_headers[i].ok
                  /\ dts_reader.chn_headers[i].npts = dts_dir.chn[i].npts

\* Two channels; the second file has the magic key and one trigger and is
\* 97 bytes long, one short of the end of its header: no reader.
C23_Witness ==
    /\ dts_dir.called
    /\ dts_dir.xml_ok
    /\ Cardinality(DocChannels) = 2
    /\ Len(dts_dir.chn) = 2
    /\ ~C23_BadChnFile(dts_dir.chn[1])
    /\ dts_dir.chn[2].magic = 741750047
    /\ dts_dir.chn[2].num_triggers = 1
    /\ dts_dir.chn[2].len = 97
    /\ dts_reader = NoReader

\* C25: track_metadata() returns channel_count() entries in channel order,
\* each with the channel's name, description, sampling rate, sensitivity,
\* serial number and unit, the name being the description for a channel
\* without a name; the call reads no sample data.
C25_Entry(i) ==
    LET m == dts_reader.xml_metadata[i]
        e == dts_dir.xml[DocPosition(m)]
    IN  [name |-> IF e.Name.some THEN e.Name.v ELSE e.Description,
         description |-> e.Description,
         sampling_rate |-> dts_dir.chn[i].sample_rate,
         sensitivity |-> e.Sensitivity,
         serial_number |-> e.SerialNumber,
         eu |-> e.Eu]

C25_MetadataOf(entries) ==
    /\ Len(entries) = channel_count(dts_reader)
    /\ \A i \in 1..Len(entries) : entries[i] = C25_Entry(i)

C25_TrackMetadata ==
    [][dts_metadata' # dts_metadata =>
          /\ C25_MetadataOf(dts_metadata'.entries)
          /\ sample_reads' = sample_reads]_vars

\* Two channels listed before any sample was read: the first has no name
\* and is listed under its description, the second under its name.
C25_Witness ==
    /\ dts_metadata.called
    /\ sample_reads = 0
    /\ Len(dts_metadata.entries) = 2
    /\ ~dts_dir.xml[DocPosition(dts_reader.xml_metadata[1])].Name.some
    /\ dts_metadata.entries[1].name = dts_metadata.entries[1].description
    /\ dts_dir.xml[DocPosition(dts_reader.xml_metadata[2])].Name.some
    /\ dts_metadata.entries[2].name # dts_metadata.entries[2].description
    /\ DocPosition(dts_reader.xml_metadata[1]) = 2

(***************************************************************************)
(* 15. The convert tool of the MCP server: ConvertDtsToUff::call_tool      *)
(* (tools.rs).  A string is the sequence of its characters.                *)
(***************************************************************************)
IsSpace(c) == c = " "

RECURSIVE trim_start(_)
trim_start(s) ==
    IF s # <<>> /\ IsSpace(s[1]) THEN trim_start(Tail(s)) ELSE s

RECURSIVE trim_end(_)
trim_end(s) ==
    IF s # <<>> /\ IsSpace(s[Len(s)])
      THEN trim_end(SubSeq(s, 1, Len(s) - 1))
    ELSE s

\* str::trim
trim(s) == trim_end(trim_start(s))

\* str::split(sep): the pieces between the separators, at least one.
RECURSIVE SplitFrom(_, _, _, _)
SplitFrom(s, sep, i, pieces) ==
    IF i > Len(s) THEN pieces
    ELSE IF s[i] = sep THEN SplitFrom(s, sep, i + 1, Append(pieces, <<>>))
    ELSE SplitFrom(s, sep, i + 1,
                   [pieces EXCEPT ![Len(pieces)] = Append(@, s[i])])

split(s, sep) == SplitFrom(s, sep, 1, << <<>> >>)

\* str::split_once(sep): the text before and after the first separator.
split_once(s, sep) ==
    IF \E i \in 1..Len(s) : s[i] = sep
      THEN LET k == Min({i \in 1..Len(s) : s[i] = sep})
           IN  [some |-> TRUE, before |-> SubSeq(s, 1, k - 1),
                after |-> SubSeq(s, k + 1, Len(s))]
    ELSE [some |-> FALSE, before |-> <<>>, after |-> <<>>]

RECURSIVE DigitsValue(_, _)
DigitsValue(s, acc) ==
    IF s = <<>> THEN acc
    ELSE DigitsValue(Tail(s), acc * 10 + DigitValue(s[1]))

\* str::parse::<usize>: decimal digits, after an optional '+'.
parse_usize(s) ==
    LET digits == IF s # <<>> /\ s[1] = "+" THEN Tail(s) ELSE s
    IN  IF digits # <<>> /\ \A i \in 1..Len(digits) : IsDigit(digits[i])
          THEN [ok |-> TRUE, v |-> DigitsValue(digits, 0)]
        ELSE [ok |-> FALSE, v |-> 0]

Uppercase == <<"A", "B", "C", "D", "E", "F", "G", "H", "I", "J", "K", "L", "M",
               "N", "O", "P", "Q", "R", "S", "T", "U", "V", "W", "X", "Y", "Z">>

Lowercase == <<"a", "b", "c", "d", "e", "f", "g", "h", "i", "j", "k", "l", "m",
               "n", "o", "p", "q", "r", "s", "t", "u", "v", "w", "x", "y", "z">>

\* str::to_ascii_lowercase
to_ascii_lowercase(s) ==
    [i \in 1..Len(s) |->
        IF \E k \in 1..26 : Uppercase[k] = s[i]
          THEN Lowercase[CHOOSE k \in 1..26 : Uppercase[k] = s[i]]
        ELSE s[i]]

\* Variant: a selection without a name is accepted.
parse_track_selection_AllowEmpty(value) ==
    LET Named(piece) == piece # <<>>
        trimmed == [i \in 1..Len(split(value, ",")) |->
                       trim(split(value, ",")[i])]
    IN  [ok |-> TRUE, tracks |-> SelectSeq(trimmed, Named)]

\* tools.rs 460-473
parse_track_selection(value) ==
    LET Named(piece) == piece # <<>>
        trimmed == [i \in 1..Len(split(value, ",")) |->
                       trim(split(value, ",")[i])]
        tracks == SelectSeq(trimmed, Named)
    IN  IF tracks = <<>> THEN [ok |-> FALSE, tracks |-> <<>>]
        ELSE [ok |-> TRUE, tracks |-> tracks]

\* conversion.rs 117-136: SampleSlice::from_str
SampleSlice_from_str(s) ==
    LET parts == split_once(s, ":")
        start == parse_usize(trim(parts.before))
        end == parse_usize(trim(parts.after))
    IN  IF ~parts.some THEN [ok |-> FALSE, start |-> 0, end |-> 0]
        ELSE IF ~start.ok THEN [ok |-> FALSE, start |-> 0, end |-> 0]
        ELSE IF ~end.ok THEN [ok |-> FALSE, start |-> 0, end |-> 0]
        ELSE [ok |-> TRUE, start |-> start.v, end |-> end.v]

\* conversion.rs 35-47: OutputFormat::from_str
OutputFormat_from_str(s) ==
    LET name == to_ascii_lowercase(trim(s))
    IN  IF name = <<"a", "s", "c", "i", "i">>
          THEN [ok |-> TRUE, format |-> "Ascii"]
        ELSE IF name = <<"b", "i", "n", "a", "r", "y">>
          THEN [ok |-> TRUE, format |-> "Binary"]
        ELSE [ok |-> FALSE, format |-> "none"]

\* Option<String>
None == [some |-> FALSE, v |-> <<>>]

Some(s) == [some |-> TRUE, v |-> s]

\* The arguments of the tool.
PathStrings(c) == {<<>>, <<" ">>, <<c>>, <<" ", c>>}

TrackListStrings ==
    {<<>>, <<",">>, <<" ", ",", " ">>, <<"a">>, <<"a", ",", " ", "b">>,
     <<",", "a", ",">>}

SliceStrings ==
    {<<>>, <<"1", "2">>, <<":">>, <<"1", ":">>, <<":", "2">>,
     <<"a", ":", "2">>, <<"-", "1", ":", "2">>, <<"1", ":", "2", ":", "3">>,
     <<"1", ":", "2">>, <<"2", ":", "1">>, <<" ", "1", " ", ":", " ", "2">>,
     <<"+", "1", ":", "1", "0">>}

FormatStrings ==
    {<<>>, <<"x", "m", "l">>, <<"a", "s", "c", "i", "i">>,
     <<"b", "i", "n", "a", "r", "y">>, <<" ", "A", "S", "C", "I", "I", " ">>}

McpArgsSet ==
    {[called |-> TRUE, input_dir |-> i, tracks_file |-> t, output_path |-> o,
      format |-> f, track_list_output |-> l, slice |-> s] :
        i \in {<<>>, <<" ">>, <<"d">>},
        t \in {<<>>, <<" ">>, <<"t">>},
        o \in PathStrings("o"),
        f \in {None} \cup {Some(x) : x \in FormatStrings},
        l \in {None} \cup {Some(x) : x \in TrackListStrings},
        s \in {None} \cup {Some(x) : x \in SliceStrings}}

InvalidArguments == [ok |-> FALSE, call |-> NoMcpCall]

\* tools.rs 54-100: the checks of call_tool in order, and the arguments it
\* hands to convert_with_options when all pass.
CheckArguments(a) ==
    LET track_selection ==
            IF a.track_list_output.some
              THEN parse_track_selection(trim(a.track_list_output.v))
            ELSE [ok |-> TRUE, tracks |-> <<>>]
        slice_arg ==
            IF a.slice.some THEN SampleSlice_from_str(a.slice.v)
            ELSE [ok |-> TRUE, start |-> 0, end |-> 0]
        format_arg ==
            IF a.format.some THEN OutputFormat_from_str(a.format.v)
            ELSE [ok |-> TRUE, format |-> "Ascii"]
    IN  IF trim(a.input_dir) = <<>> THEN InvalidArguments
        ELSE IF trim(a.tracks_file) = <<>> THEN InvalidArguments
        ELSE IF trim(a.output_path) = <<>> THEN InvalidArguments
        ELSE IF ~track_selection.ok THEN InvalidArguments
        ELSE IF ~slice_arg.ok THEN InvalidArguments
        ELSE IF ~format_arg.ok THEN InvalidArguments
        ELSE [ok |-> TRUE,
              call |-> [started |-> TRUE,
                        input_dir |-> a.input_dir,
                        tracks_file |-> a.tracks_file,
                        output_path |-> trim(a.output_path),
                        format |-> format_arg.format,
                        slice |-> [some |-> a.slice.some,
                                   start |-> slice_arg.start,
                                   end |-> slice_arg.end],
                        track_filter |-> [some |-> a.track_list_output.some,
                                          names |-> track_selection.tracks]]]

\* call_tool up to spawn_blocking (tools.rs 53-106).
ConvertToolCall ==
    /\ mcp_pc = "idle"
    /\ \E a \in McpArgsSet :
          /\ mcp_args' = a
          /\ mcp_call' = CheckArguments(a).call
          /\ IF CheckArguments(a).ok
               THEN mcp_pc' = "blocking" /\ mcp_result' = "none"
             ELSE mcp_pc' = "done" /\ mcp_result' = "invalid_arguments"
    /\ UNCHANGED mcp_fs
    /\ UNCHANGED nonMcpVars

\* The background conversion returns Ok: it has read the input directory
\* and written the output.
ConversionOk ==
    /\ mcp_pc = "blocking"
    /\ mcp_fs' = [input_read |-> TRUE, output_touched |-> TRUE]
    /\ mcp_pc' = "done"
    /\ mcp_result' = "ok"
    /\ UNCHANGED <<mcp_args, mcp_call>>
    /\ UNCHANGED nonMcpVars

\* The background conversion returns Err (tools.rs 125): before it opened
\* the directory, before it created the output, or after.
ConversionErr ==
    /\ mcp_pc = "blocking"
    /\ \E r \in BOOLEAN, w \in BOOLEAN :
          /\ w => r
          /\ mcp_fs' = [input_read |-> r, output_touched |-> w]
    /\ mcp_pc' = "done"
    /\ mcp_result' = "error"
    /\ UNCHANGED <<mcp_args, mcp_call>>
    /\ UNCHANGED nonMcpVars

\* The background task itself fails (tools.rs 124).
BackgroundTaskFailed ==
    /\ mcp_pc = "blocking"
    /\ \E r \in BOOLEAN, w \in BOOLEAN :
          /\ w => r
          /\ mcp_fs' = [input_read |-> r, output_touched |-> w]
    /\ mcp_pc' = "done"
    /\ mcp_result' = "background_task_failed"
    /\ UNCHANGED <<mcp_args, mcp_call>>
    /\ UNCHANGED nonMcpVars

NextMcp ==
    ConvertToolCall \/ ConversionOk \/ ConversionErr \/ BackgroundTaskFailed

SpecMcp == Init /\ [][NextMcp]_vars

\* The argument strings of the model that are empty or blank, name no
\* track, are no start:end pair of numbers, or name no supported format.
C26_Blank(s) == \A i \in 1..Len(s) : s[i] = " "

C26_NoTrackName(s) == \A i \in 1..Len(s) : s[i] \in {" ", ","}

C26_ParseableSlices ==
    {<<"1", ":", "2">>, <<"2", ":", "1">>, <<" ", "1", " ", ":", " ", "2">>,
     <<"+", "1", ":", "1", "0">>}

C26_SupportedFormats ==
    {<<"a", "s", "c", "i", "i">>, <<"b", "i", "n", "a", "r", "y">>,
     <<" ", "A", "S", "C", "I", "I", " ">>}

C26_Invalid(a) ==
    \/ C26_Blank(a.input_dir)
    \/ C26_Blank(a.tracks_file)
    \/ C26_Blank(a.output_path)
    \/ a.track_list_output.some /\ C26_NoTrackName(a.track_list_output.v)
    \/ a.slice.some /\ a.slice.v \notin C26_ParseableSlices
    \/ a.format.some /\ a.format.v \notin C26_SupportedFormats

\* C26: a call with a blank input_dir, tracks_file or output_path, a track
\* filter without a name, a slice that is no start:end pair or a format
\* other than ascii and binary returns invalid-arguments, and the
\* background conversion is never started: the input directory is not read
\* and the output is not touched.
C26_ValidatesBeforeConverting ==
    (mcp_args.called /\ C26_Invalid(mcp_args)) =>
        /\ mcp_result = "invalid_arguments"
        /\ mcp_pc = "done"
        /\ ~mcp_call.started
        /\ mcp_fs = UntouchedFs

\* Valid paths and slice, a format left out, and the track filter " , ".
C26_Witness ==
    /\ mcp_args.called
    /\ mcp_args.input_dir = <<"d">>
    /\ mcp_args.tracks_file = <<"t">>
    /\ mcp_args.output_path = <<" ", "o">>
    /\ ~mcp_args.format.some
    /\ mcp_args.slice = Some(<<"1", ":", "2">>)
    /\ mcp_args.track_list_output = Some(<<" ", ",", " ">>)
    /\ mcp_result = "invalid_arguments"
    /\ mcp_fs = UntouchedFs
====
